---- MODULE Spec2Model ----
(***************************************************************************)
(* Settlement reconciliation service: the store (internal/store), the      *)
(* three-phase matching engine and the report builder                      *)
(* (internal/reconciler/reconciler.go), as a state machine.                *)
(*                                                                         *)
(* Representation of the Go values:                                        *)
(*  - money (float64) is an integer number of hundredths, so the literal   *)
(*    0.01 of the source is 1; arithmetic is exact (no float rounding);    *)
(*  - VarianceTolerancePct (a fraction) is an integer number of            *)
(*    hundredths, 0.02 is 2, and x * pct is compared after scaling by      *)
(*    PctScale;                                                            *)
(*  - an FX rate is a pair [n, d] standing for n/d;                        *)
(*  - a time.Time is an integer number of hours;                           *)
(*  - a nil pointer is <<>>, a pointer to v is <<v>>; the zero string ""   *)
(*    is itself;                                                           *)
(*  - a result's ID "RR-<run>-<%04d>" is the counter it is formatted from; *)
(*  - Notes is the sequence of the kinds of note the code formats;         *)
(*  - record identifiers are non-empty strings (an empty reference in a    *)
(*    result means "no record").                                           *)
(***************************************************************************)
EXTENDS Integers, Sequences, FiniteSets, TLC

VARIABLES
    storeTransactions,   \* Store.transactions: map id -> Transaction
    storeSettlements,    \* Store.settlements: map id -> SettlementRecord
    config,              \* Reconciler.config
    pc,                  \* position of Run
    transactions,        \* Run: the transaction snapshot (a list)
    settlements,         \* Run: the settlement snapshot (a list)
    txnByProcessorKey,   \* Run: index key -> Transaction
    txnByOrderID,        \* Run: index order id -> Transaction
    settlementsByKey,    \* Run: key -> list of settlements
    matchedTxnIDs,       \* Run: set of consumed transaction ids
    matchedSettlementIDs,\* Run: set of consumed settlement ids
    duplicateKeys,       \* Run: keys of duplicate groups
    results,             \* Run: the outcome list
    resultID,            \* Run: counter behind nextID
    report,              \* the report Run returns (<<>> until built)
    handlerConfig,       \* Handler.config
    reconcilerConfig,    \* Handler.reconciler's config
    runSeq,              \* Handler.runSeq
    runs,                \* Store.runs: map run id -> *ReconciliationRun
    request,             \* body of the trigger request being served (<<>>: none)
    held,                \* history: the (transactions, settlements) contents the
                         \* store has had
    runObjects,          \* the ReconciliationRun objects Store.runs points to
    mu,                  \* Store.mu, the RWMutex
    writeOp,             \* the store write in progress (<<>>: none)
    readOp,              \* the list call of a client (<<>>: none yet)
    serving,             \* the trigger requests in progress: locals of each
    response             \* the latest response of a run reader (<<>>: none yet)

vars == <<storeTransactions, storeSettlements, config, pc, transactions,
          settlements, txnByProcessorKey, txnByOrderID, settlementsByKey,
          matchedTxnIDs, matchedSettlementIDs, duplicateKeys,
          results, resultID, report, handlerConfig, reconcilerConfig, runSeq, runs,
          request, held, runObjects, mu, writeOp, readOp, serving, response>>

\* What only the concurrent requests of SpecStore and SpecServe touch.
concurrencyVars == <<mu, writeOp, readOp, serving, response>>

\* What Run neither reads nor writes.
serviceVars == <<handlerConfig, reconcilerConfig, runSeq, runs, request, held,
                 runObjects, concurrencyVars>>

\* store.New and no request in progress: the mutex free, no run object.
ServiceIdle ==
    /\ runObjects = <<>>
    /\ mu = [writer |-> FALSE, readers |-> 0]
    /\ writeOp = <<>>
    /\ readOp = <<>>
    /\ serving = <<>>
    /\ response = <<>>

-----------------------------------------------------------------------------
(* Bounds of the model. *)

MaxSetts == 3         \* settlements in the store
MaxDelta == 3         \* |settled gross - expected| explored, in hundredths
MaxFee == 3           \* |fee| explored, in hundredths
MaxRuns == 2
MaxRequests == 2     \* concurrent trigger requests

-----------------------------------------------------------------------------
(* Constants of the program. *)

StatusMatched == "matched"
StatusMatchedWithVariance == "matched_with_variance"
StatusUnsettled == "unsettled"
StatusUnexpectedSettlement == "unexpected_settlement"
StatusDuplicate == "duplicate"

\* the literal 0.01 of the variance and fee comparisons
RoundingFloor == 1
\* "/ 24": hours per day of days-to-settle
HoursPerDay == 24
\* denominator of the representation of VarianceTolerancePct (0.02 is 2)
PctScale == 100

-----------------------------------------------------------------------------
(* Arithmetic helpers. *)

Abs(x) == IF x < 0 THEN -x ELSE x

\* Go's int(x / y) on floats: the quotient truncated toward zero.
TruncDiv(x, y) == IF x >= 0 THEN x \div y ELSE -((-x) \div y)

Max(S) == CHOOSE x \in S : \A y \in S : y <= x

\* All the orders in which a Go range over a map with key set S can run.
Orderings(S) ==
    {f \in [1..Cardinality(S) -> S] : \A i, j \in DOMAIN f : i # j => f[i] # f[j]}

-----------------------------------------------------------------------------
(* Records (internal/models/models.go).  The fields the engine never reads   *)
(* (Status, CapturedAt, CustomerEmail, PaymentMethod, SettlementBatchID) are *)
(* left out.                                                                 *)

Transaction(id, orderID, name, ptid, amount, currency, country, authAt) ==
    [ID |-> id, OrderID |-> orderID, ProcessorName |-> name,
     ProcessorTxnID |-> ptid, Amount |-> amount, Currency |-> currency,
     Country |-> country, AuthorizedAt |-> authAt]

SettlementRecord(id, name, ptid, orderRef, gross, fee, net, currency, settledAt) ==
    [ID |-> id, ProcessorName |-> name, ProcessorTxnID |-> ptid,
     OrderReference |-> orderRef, GrossAmount |-> gross, FeeAmount |-> fee,
     NetAmount |-> net, Currency |-> currency, SettledAt |-> settledAt]

\* The zero value of ReconciliationResult.
ZeroResult ==
    [ID |-> 0, TransactionID |-> "", SettlementID |-> "", ProcessorName |-> "",
     Status |-> "", ExpectedAmount |-> 0, SettledGrossAmount |-> 0,
     SettledNetAmount |-> 0, FeeAmount |-> 0, VarianceAmount |-> 0,
     Currency |-> "", Country |-> "", AuthorizedAt |-> <<>>, SettledAt |-> <<>>,
     DaysToSettle |-> <<>>, Notes |-> <<>>]

Rate(n, d) == [n |-> n, d |-> d]

\* The zero value of ReportSummary.
ZeroSummary ==
    [TotalTransactions |-> 0, TotalSettlements |-> 0, Matched |-> 0,
     MatchedWithVariance |-> 0, Unsettled |-> 0, UnexpectedSettlements |-> 0,
     Duplicates |-> 0, TotalExpectedAmount |-> 0, TotalSettledGross |-> 0,
     TotalSettledNet |-> 0, TotalVarianceAmount |-> 0, TotalFees |-> 0,
     ReconciliationRate |-> Rate(0, 1)]

\* models.DefaultConfig(): 0.0, 7 days, 1000.0, the built-in rate table.
DefaultConfig ==
    [VarianceTolerancePct |-> 0,
     LateSettlementDays |-> 7,
     HighPriorityThreshold |-> 100000,
     FXRates |-> [c \in {"MXN", "COP", "BRL", "USD"} |->
                    [u \in {"USD"} |->
                        CASE c = "MXN" -> Rate(58, 1000)
                          [] c = "COP" -> Rate(24, 100000)
                          [] c = "BRL" -> Rate(20, 100)
                          [] c = "USD" -> Rate(1, 1)]]]

-----------------------------------------------------------------------------
(* Input domains. *)

\* the transactions the store can hold
TxnIDs == <<"T1", "T2">>
SettlementIDs == <<"S1", "S2", "S3", "S4", "S5">>

\* A shape is a processor name n, a processor transaction id i and an order
\* id / order reference o ("" is the absent one); names and ids are arbitrary
\* strings of the uploaded JSON.
Shapes ==
    <<[n |-> "a", i |-> "c", o |-> ""],
      [n |-> "a", i |-> "c", o |-> "O1"],
      [n |-> "a", i |-> "b:c", o |-> "O1"],
      [n |-> "a:b", i |-> "c", o |-> ""]>>

NumShapes == Len(Shapes)
shapeKey(v) == [n |-> Shapes[v].n, i |-> Shapes[v].i]
shapeOrder(v) == Shapes[v].o

\* The assignments of shapes to records 1..n, up to renaming the records
\* (the list order of a snapshot is chosen by the store, not by the ids).
ShapeChoices(n) ==
    {f \in [1..n -> 1..NumShapes] : \A i, j \in 1..n : i < j => f[i] <= f[j]}

Currencies == {"USD", "MXN"}

\* a rate table with a direct MXN -> USD rate; USD -> MXN goes through the
\* USD bridge.
ModelFXRates ==
    [c \in {"MXN", "USD"} |->
        [u \in {"USD"} |-> IF c = "MXN" THEN Rate(2, 1) ELSE Rate(1, 1)]]

TolerancePcts == {0, 2}

\* Matching family: up to Len(TxnIDs) transactions and MaxSetts settlements whose
\* processor keys and order references vary; amounts are fixed per record.
MatchingTxn(j, sh) ==
    Transaction(TxnIDs[j], shapeOrder(sh), shapeKey(sh).n, shapeKey(sh).i,
                100 + j, "USD", "MX", 0)

MatchingSett(j, sh) ==
    SettlementRecord(SettlementIDs[j], shapeKey(sh).n, shapeKey(sh).i,
                     shapeOrder(sh), 100 + 10 * j, j, 100 + 9 * j, "USD", 48)

InitMatching ==
    \E nt \in 0..Len(TxnIDs), ns \in 0..MaxSetts :
      \E ts \in ShapeChoices(nt), ss \in ShapeChoices(ns) :
        /\ storeTransactions = [id \in {TxnIDs[j] : j \in 1..nt} |->
              LET j == CHOOSE j \in 1..nt : TxnIDs[j] = id IN MatchingTxn(j, ts[j])]
        /\ storeSettlements = [id \in {SettlementIDs[j] : j \in 1..ns} |->
              LET j == CHOOSE j \in 1..ns : SettlementIDs[j] = id IN MatchingSett(j, ss[j])]
        /\ config = DefaultConfig

\* Amount family: one transaction and one settlement with the same processor
\* key; amounts, fee, currencies and tolerance vary.
InitAmounts ==
    \E tc \in Currencies, sc \in Currencies, base \in {50, 100, 200},
       delta \in -MaxDelta..MaxDelta, fee \in -MaxFee..MaxFee, tol \in TolerancePcts :
        /\ storeTransactions = [id \in {"T1"} |->
              Transaction("T1", "O1", "a", "c", 100, tc, "MX", 0)]
        /\ storeSettlements = [id \in {"S1"} |->
              SettlementRecord("S1", "a", "c", "O1", base + delta, fee,
                               base + delta - fee, sc, 48)]
        /\ config = [DefaultConfig EXCEPT !.VarianceTolerancePct = tol,
                                          !.FXRates = ModelFXRates]

\* Priority family: two transactions of amount 100 authorized at hour 0, and
\* up to MaxSetts settlements, each of one of the kinds below: a processor
\* transaction id i ("c" is T1's, "b:c" is T2's, "z" is nobody's), a gross
\* amount and a settlement hour.  The threshold is 5 and lateness starts after
\* 2 days.
PriorityKinds ==
    <<[i |-> "c",   gross |-> 100, at |-> 72],
      [i |-> "c",   gross |-> 110, at |-> 48],
      [i |-> "c",   gross |-> 103, at |-> 48],
      [i |-> "c",   gross |-> 100, at |-> -25],
      [i |-> "b:c", gross |-> 90,  at |-> 72],
      [i |-> "b:c", gross |-> 110, at |-> 71],
      [i |-> "b:c", gross |-> 100, at |-> 48],
      [i |-> "z",   gross |-> 110, at |-> 48],
      [i |-> "z",   gross |-> 3,   at |-> 48]>>

KindChoices(n) ==
    {f \in [1..n -> 1..Len(PriorityKinds)] : \A i, j \in 1..n : i < j => f[i] <= f[j]}

PrioritySett(j, kind) ==
    SettlementRecord(SettlementIDs[j], "a", kind.i, "", kind.gross, 0, kind.gross,
                     "USD", kind.at)

PriorityConfig ==
    [DefaultConfig EXCEPT !.HighPriorityThreshold = 5, !.LateSettlementDays = 2]

InitPriority ==
    \E ns \in 1..MaxSetts :
      \E ks \in KindChoices(ns) :
        /\ storeTransactions =
              [id \in {"T1", "T2"} |->
                  IF id = "T1" THEN Transaction("T1", "O1", "a", "c", 100, "USD", "MX", 0)
                  ELSE Transaction("T2", "O2", "a", "b:c", 100, "USD", "BR", 0)]
        /\ storeSettlements = [id \in {SettlementIDs[j] : j \in 1..ns} |->
              LET j == CHOOSE j \in 1..ns : SettlementIDs[j] = id
              IN  PrioritySett(j, PriorityKinds[ks[j]])]
        /\ config = PriorityConfig

\* Conversion family: one transaction and one settlement, or a duplicate group
\* of two, with the same processor key; the two currencies and the rate table
\* vary.  The tables: the
\* one of the amount family; one with a direct MXN -> BRL rate that differs
\* from the rate through USD; one in which MXN has no USD rate and USD has no
\* entry.  EUR is in no table.
FXCurrencies == {"USD", "MXN", "BRL", "EUR"}

DirectFXRates ==
    [c \in {"MXN", "BRL", "USD"} |->
        IF c = "MXN" THEN [u \in {"USD", "BRL"} |-> IF u = "USD" THEN Rate(2, 1) ELSE Rate(5, 1)]
        ELSE [u \in {"USD"} |-> IF c = "BRL" THEN Rate(4, 1) ELSE Rate(1, 1)]]

PartialFXRates ==
    [c \in {"MXN", "BRL"} |->
        IF c = "MXN" THEN [u \in {"BRL"} |-> Rate(5, 1)]
        ELSE [u \in {"USD"} |-> Rate(4, 1)]]

FXTables == {ModelFXRates, DirectFXRates, PartialFXRates}

InitConversion ==
    \E tc \in FXCurrencies, sc \in FXCurrencies, table \in FXTables, amount \in {100, 200},
       ids \in {{"S1"}, {"S1", "S2"}} :
        /\ storeTransactions = [id \in {"T1"} |->
              Transaction("T1", "O1", "a", "c", amount, tc, "MX", 0)]
        /\ storeSettlements = [id \in ids |->
              SettlementRecord(id, "a", "c", "O1", 100, 0, 100, sc, 48)]
        /\ config = [DefaultConfig EXCEPT !.FXRates = table]

\* The contents of the store.
StoreContents == [transactions |-> storeTransactions, settlements |-> storeSettlements]

\* A Reconciler whose Run has not started.
RunNotStarted ==
    /\ pc = "start"
    /\ transactions = <<>>
    /\ settlements = <<>>
    /\ txnByProcessorKey = <<>>
    /\ txnByOrderID = <<>>
    /\ settlementsByKey = <<>>
    /\ matchedTxnIDs = {}
    /\ matchedSettlementIDs = {}
    /\ duplicateKeys = {}
    /\ results = <<>>
    /\ resultID = 0
    /\ report = <<>>

\* A store filled by earlier uploads and a Reconciler built on it with config.
Init ==
    /\ InitMatching \/ InitAmounts \/ InitPriority \/ InitConversion
    /\ RunNotStarted
    /\ handlerConfig = config
    /\ reconcilerConfig = config
    /\ runSeq = 0
    /\ runs = <<>>
    /\ ServiceIdle
    /\ request = <<>>
    /\ held = {StoreContents}

-----------------------------------------------------------------------------
(* Pure functions of reconciler.go. *)

\* fmt.Sprintf("%s:%s", processorName, processorTxnID)
processorKey(processorName, processorTxnID) ==
    processorName \o ":" \o processorTxnID

\* findTransaction trying the order reference before the processor key.
findTransactionOrderFirst(pkey, orderRef, byPK, byOrder) ==
    IF orderRef # "" /\ orderRef \in DOMAIN byOrder THEN <<byOrder[orderRef]>>
    ELSE IF pkey \in DOMAIN byPK THEN <<byPK[pkey]>>
    ELSE <<>>

\* <<>> is (Transaction{}, false); <<t>> is (t, true).
findTransaction(pkey, orderRef, byPK, byOrder) ==
    IF pkey \in DOMAIN byPK THEN <<byPK[pkey]>>
    ELSE IF orderRef # "" /\ orderRef \in DOMAIN byOrder THEN <<byOrder[orderRef]>>
    ELSE <<>>

\* amount * rate, and amount * rateFrom / rateTo, on rates n/d.
MulRate(amount, r) == (amount * r.n) \div r.d
MulDivRate(amount, rf, rt) == (amount * rf.n * rt.d) \div (rf.d * rt.n)

\* convertAmount trying the USD bridge before the direct rate.
convertAmountBridgeFirst(cfg, amount, from, to) ==
    IF from = to THEN amount
    ELSE IF /\ from \in DOMAIN cfg.FXRates
            /\ to \in DOMAIN cfg.FXRates
            /\ "USD" \in DOMAIN cfg.FXRates[from]
            /\ "USD" \in DOMAIN cfg.FXRates[to]
      THEN MulDivRate(amount, cfg.FXRates[from]["USD"], cfg.FXRates[to]["USD"])
    ELSE IF from \in DOMAIN cfg.FXRates /\ to \in DOMAIN cfg.FXRates[from]
      THEN MulRate(amount, cfg.FXRates[from][to])
    ELSE amount

convertAmount(cfg, amount, from, to) ==
    IF from = to THEN amount
    ELSE IF from \in DOMAIN cfg.FXRates /\ to \in DOMAIN cfg.FXRates[from]
      THEN MulRate(amount, cfg.FXRates[from][to])
    ELSE IF /\ from \in DOMAIN cfg.FXRates
            /\ to \in DOMAIN cfg.FXRates
            /\ "USD" \in DOMAIN cfg.FXRates[from]
            /\ "USD" \in DOMAIN cfg.FXRates[to]
      THEN MulDivRate(amount, cfg.FXRates[from]["USD"], cfg.FXRates[to]["USD"])
    ELSE amount

\* daysBetween rounding to the nearest day instead of truncating.
daysBetweenRounded(authAt, settledAt) ==
    TruncDiv(2 * (settledAt - authAt) + HoursPerDay, 2 * HoursPerDay)

\* int(settledAt.Sub(authAt).Hours() / 24)
daysBetween(authAt, settledAt) == TruncDiv(settledAt - authAt, HoursPerDay)

\* withinTolerance with "<" for "<=".
withinToleranceStrict(cfg, variance, expectedAmount) ==
    Abs(variance) * PctScale < expectedAmount * cfg.VarianceTolerancePct

\* math.Abs(variance) <= expectedAmount * VarianceTolerancePct
withinTolerance(cfg, variance, expectedAmount) ==
    Abs(variance) * PctScale <= expectedAmount * cfg.VarianceTolerancePct

\* feeExplains without "s.FeeAmount > 0".
feeExplainsAnySign(variance, fee) == Abs(variance + fee) < RoundingFloor

\* s.FeeAmount > 0 && math.Abs(variance+s.FeeAmount) < 0.01
feeExplains(variance, fee) ==
    fee > 0 /\ Abs(variance + fee) < RoundingFloor

\* classify with ">=" for ">" in "math.Abs(variance) > 0.01".
classifyFloorExclusive(cfg, txn, s, expectedAmount, variance) ==
    IF Abs(variance) >= RoundingFloor
    THEN IF withinTolerance(cfg, variance, expectedAmount)
         THEN [status |-> StatusMatched, notes |-> <<"tolerance">>]
         ELSE IF txn.Currency # s.Currency
              THEN [status |-> StatusMatchedWithVariance, notes |-> <<"cross_currency">>]
              ELSE IF feeExplains(variance, s.FeeAmount)
                   THEN [status |-> StatusMatched, notes |-> <<"fee_deduction">>]
                   ELSE [status |-> StatusMatchedWithVariance, notes |-> <<"amount_variance">>]
    ELSE [status |-> StatusMatched, notes |-> <<>>]

\* The status and the note of a paired settlement (Run, the block after
\* "We have a match").
classify(cfg, txn, s, expectedAmount, variance) ==
    IF Abs(variance) > RoundingFloor
    THEN IF withinTolerance(cfg, variance, expectedAmount)
         THEN [status |-> StatusMatched, notes |-> <<"tolerance">>]
         ELSE IF txn.Currency # s.Currency
              THEN [status |-> StatusMatchedWithVariance, notes |-> <<"cross_currency">>]
              ELSE IF feeExplains(variance, s.FeeAmount)
                   THEN [status |-> StatusMatched, notes |-> <<"fee_deduction">>]
                   ELSE [status |-> StatusMatchedWithVariance, notes |-> <<"amount_variance">>]
    ELSE [status |-> StatusMatched, notes |-> <<>>]

\* The notes with the late-settlement note appended when days exceed the threshold.
lateNotes(cfg, notes, days) ==
    IF days > cfg.LateSettlementDays THEN Append(notes, "late") ELSE notes

\* Phase 1: the outcome of settlement s of a duplicate group; found is what
\* findTransaction returned for the group.
duplicateResult(id, s, found) ==
    LET base == [ZeroResult EXCEPT
                    !.ID = id,
                    !.SettlementID = s.ID,
                    !.ProcessorName = s.ProcessorName,
                    !.Status = StatusDuplicate,
                    !.SettledGrossAmount = s.GrossAmount,
                    !.SettledNetAmount = s.NetAmount,
                    !.FeeAmount = s.FeeAmount,
                    !.Currency = s.Currency,
                    !.Notes = <<"duplicate">>,
                    !.SettledAt = <<s.SettledAt>>]
    IN  IF found # <<>>
        THEN [base EXCEPT
                !.TransactionID = found[1].ID,
                !.ExpectedAmount = found[1].Amount,
                !.Country = found[1].Country,
                !.VarianceAmount = s.GrossAmount - found[1].Amount,
                !.AuthorizedAt = <<found[1].AuthorizedAt>>,
                !.DaysToSettle = <<daysBetween(found[1].AuthorizedAt, s.SettledAt)>>]
        ELSE base

\* unexpectedResult without the assignment of VarianceAmount.
unexpectedResultNoVariance(id, s) ==
    [ZeroResult EXCEPT
        !.ID = id,
        !.SettlementID = s.ID,
        !.ProcessorName = s.ProcessorName,
        !.Status = StatusUnexpectedSettlement,
        !.SettledGrossAmount = s.GrossAmount,
        !.SettledNetAmount = s.NetAmount,
        !.FeeAmount = s.FeeAmount,
        !.Currency = s.Currency,
        !.SettledAt = <<s.SettledAt>>,
        !.Notes = <<"no_transaction">>]

\* Phase 2: the outcome of a settlement no transaction was found for.
unexpectedResult(id, s) ==
    [ZeroResult EXCEPT
        !.ID = id,
        !.SettlementID = s.ID,
        !.ProcessorName = s.ProcessorName,
        !.Status = StatusUnexpectedSettlement,
        !.SettledGrossAmount = s.GrossAmount,
        !.SettledNetAmount = s.NetAmount,
        !.FeeAmount = s.FeeAmount,
        !.VarianceAmount = s.GrossAmount,
        !.Currency = s.Currency,
        !.SettledAt = <<s.SettledAt>>,
        !.Notes = <<"no_transaction">>]

\* Phase 2: the outcome of settlement s paired with transaction txn.
matchResult(cfg, id, txn, s) ==
    LET expectedAmount == convertAmount(cfg, txn.Amount, txn.Currency, s.Currency)
        variance == s.GrossAmount - expectedAmount
        c == classify(cfg, txn, s, expectedAmount, variance)
        days == daysBetween(txn.AuthorizedAt, s.SettledAt)
    IN  [ZeroResult EXCEPT
            !.ID = id,
            !.TransactionID = txn.ID,
            !.SettlementID = s.ID,
            !.ProcessorName = txn.ProcessorName,
            !.Status = c.status,
            !.ExpectedAmount = expectedAmount,
            !.SettledGrossAmount = s.GrossAmount,
            !.SettledNetAmount = s.NetAmount,
            !.FeeAmount = s.FeeAmount,
            !.VarianceAmount = variance,
            !.Currency = s.Currency,
            !.Country = txn.Country,
            !.AuthorizedAt = <<txn.AuthorizedAt>>,
            !.SettledAt = <<s.SettledAt>>,
            !.DaysToSettle = <<days>>,
            !.Notes = lateNotes(cfg, c.notes, days)]

\* unsettledResult without the assignment of TransactionID.
unsettledResultNoTransactionID(id, txn) ==
    [ZeroResult EXCEPT
        !.ID = id,
        !.ProcessorName = txn.ProcessorName,
        !.Status = StatusUnsettled,
        !.ExpectedAmount = txn.Amount,
        !.Currency = txn.Currency,
        !.Country = txn.Country,
        !.AuthorizedAt = <<txn.AuthorizedAt>>,
        !.Notes = <<"no_settlement">>]

\* unsettledResult with the whole expected amount as (negative) variance.
unsettledResultWithVariance(id, txn) ==
    [ZeroResult EXCEPT
        !.ID = id,
        !.TransactionID = txn.ID,
        !.ProcessorName = txn.ProcessorName,
        !.Status = StatusUnsettled,
        !.ExpectedAmount = txn.Amount,
        !.VarianceAmount = 0 - txn.Amount,
        !.Currency = txn.Currency,
        !.Country = txn.Country,
        !.AuthorizedAt = <<txn.AuthorizedAt>>,
        !.Notes = <<"no_settlement">>]

\* Phase 3: the outcome of a transaction nothing consumed.
unsettledResult(id, txn) ==
    [ZeroResult EXCEPT
        !.ID = id,
        !.TransactionID = txn.ID,
        !.ProcessorName = txn.ProcessorName,
        !.Status = StatusUnsettled,
        !.ExpectedAmount = txn.Amount,
        !.Currency = txn.Currency,
        !.Country = txn.Country,
        !.AuthorizedAt = <<txn.AuthorizedAt>>,
        !.Notes = <<"no_settlement">>]

-----------------------------------------------------------------------------
(* Report aggregation (buildReport, addToSummary). *)

\* addToSummary leaving the amounts of duplicate outcomes out of the sums.
addToSummarySkipDuplicates(s, res) ==
    LET counted ==
          CASE res.Status = StatusMatched -> [s EXCEPT !.Matched = @ + 1]
            [] res.Status = StatusMatchedWithVariance -> [s EXCEPT !.MatchedWithVariance = @ + 1]
            [] res.Status = StatusUnsettled -> [s EXCEPT !.Unsettled = @ + 1]
            [] res.Status = StatusUnexpectedSettlement -> [s EXCEPT !.UnexpectedSettlements = @ + 1]
            [] res.Status = StatusDuplicate -> [s EXCEPT !.Duplicates = @ + 1]
            [] OTHER -> s
    IN  IF res.Status = StatusDuplicate THEN counted
        ELSE [counted EXCEPT
                !.TotalExpectedAmount = @ + res.ExpectedAmount,
                !.TotalSettledGross = @ + res.SettledGrossAmount,
                !.TotalSettledNet = @ + res.SettledNetAmount,
                !.TotalVarianceAmount = @ + res.VarianceAmount,
                !.TotalFees = @ + res.FeeAmount]

addToSummary(s, res) ==
    LET counted ==
          CASE res.Status = StatusMatched -> [s EXCEPT !.Matched = @ + 1]
            [] res.Status = StatusMatchedWithVariance -> [s EXCEPT !.MatchedWithVariance = @ + 1]
            [] res.Status = StatusUnsettled -> [s EXCEPT !.Unsettled = @ + 1]
            [] res.Status = StatusUnexpectedSettlement -> [s EXCEPT !.UnexpectedSettlements = @ + 1]
            [] res.Status = StatusDuplicate -> [s EXCEPT !.Duplicates = @ + 1]
            [] OTHER -> s
    IN  [counted EXCEPT
            !.TotalExpectedAmount = @ + res.ExpectedAmount,
            !.TotalSettledGross = @ + res.SettledGrossAmount,
            !.TotalSettledNet = @ + res.SettledNetAmount,
            !.TotalVarianceAmount = @ + res.VarianceAmount,
            !.TotalFees = @ + res.FeeAmount]

\* addToSummary applied, in order, to the elements of rs.
RECURSIVE summarize(_, _)
summarize(s, rs) ==
    IF rs = <<>> THEN s ELSE summarize(addToSummary(s, Head(rs)), Tail(rs))

\* breakdown without the test that the field is not empty.
breakdownKeepEmpty(rs, field) ==
    [v \in {rs[i][field] : i \in DOMAIN rs} |->
        LET keep(res) == res[field] = v IN summarize(ZeroSummary, SelectSeq(rs, keep))]

\* One breakdown map: a bucket per non-empty value of the field.
breakdown(rs, field) ==
    [v \in {rs[i][field] : i \in DOMAIN rs} \ {""} |->
        LET keep(res) == res[field] = v IN summarize(ZeroSummary, SelectSeq(rs, keep))]

\* highPriorityAppended without the "alreadyAdded" test.
RECURSIVE highPriorityAppendedNoDedup(_, _, _)
highPriorityAppendedNoDedup(cfg, hp, rs) ==
    IF rs = <<>> THEN hp
    ELSE LET res == Head(rs)
             hp1 == IF /\ res.Status # StatusMatched
                       /\ Abs(res.VarianceAmount) >= cfg.HighPriorityThreshold
                    THEN Append(hp, res) ELSE hp
             hp2 == IF /\ res.DaysToSettle # <<>>
                       /\ res.DaysToSettle[1] > cfg.LateSettlementDays
                    THEN Append(hp1, res) ELSE hp1
         IN  highPriorityAppendedNoDedup(cfg, hp2, Tail(rs))

\* The high-priority list as the loop of buildReport appends it (before the sort).
RECURSIVE highPriorityAppended(_, _, _)
highPriorityAppended(cfg, hp, rs) ==
    IF rs = <<>> THEN hp
    ELSE LET res == Head(rs)
             hp1 == IF /\ res.Status # StatusMatched
                       /\ Abs(res.VarianceAmount) >= cfg.HighPriorityThreshold
                    THEN Append(hp, res) ELSE hp
             hp2 == IF /\ res.DaysToSettle # <<>>
                       /\ res.DaysToSettle[1] > cfg.LateSettlementDays
                       /\ \A k \in DOMAIN hp1 : hp1[k].ID # res.ID
                    THEN Append(hp1, res) ELSE hp1
         IN  highPriorityAppended(cfg, hp2, Tail(rs))

\* buildReport without the sort of the high-priority list.
sortedByVarianceSkipped(hp) == {hp}

\* sort.Slice with less(i, j) = |variance i| > |variance j|: sort.Slice is not
\* stable, so every permutation of hp in which no element is less than its
\* predecessor is a possible result.
sortedByVariance(hp) ==
    {[k \in DOMAIN hp |-> hp[p[k]]] : p \in
        {q \in Orderings(DOMAIN hp) :
            \A k \in 1..(Len(hp) - 1) :
                ~(Abs(hp[q[k + 1]].VarianceAmount) > Abs(hp[q[k]].VarianceAmount))}}

\* overallSummary without the "* 100" of the rate.
overallSummaryFraction(txns, setts, rs) ==
    LET s == summarize([ZeroSummary EXCEPT !.TotalTransactions = Len(txns),
                                           !.TotalSettlements = Len(setts)], rs)
        total == s.Matched + s.MatchedWithVariance + s.Unsettled
                   + s.UnexpectedSettlements + s.Duplicates
    IN  IF total > 0
        THEN [s EXCEPT !.ReconciliationRate =
                          Rate(s.Matched + s.MatchedWithVariance, total)]
        ELSE s

\* Summary of the report: the counts and sums, then the rate.
overallSummary(txns, setts, rs) ==
    LET s == summarize([ZeroSummary EXCEPT !.TotalTransactions = Len(txns),
                                           !.TotalSettlements = Len(setts)], rs)
        total == s.Matched + s.MatchedWithVariance + s.Unsettled
                   + s.UnexpectedSettlements + s.Duplicates
    IN  IF total > 0
        THEN [s EXCEPT !.ReconciliationRate =
                          Rate((s.Matched + s.MatchedWithVariance) * 100, total)]
        ELSE s

currencyOf == "Currency"
countryOf == "Country"
processorOf == "ProcessorName"

\* The reports buildReport can return (RunID and GeneratedAt left out).
buildReport(cfg, txns, setts, rs) ==
    {[Summary |-> overallSummary(txns, setts, rs),
      ByCurrency |-> breakdown(rs, currencyOf),
      ByCountry |-> breakdown(rs, countryOf),
      ByProcessor |-> breakdown(rs, processorOf),
      Results |-> rs,
      HighPriority |-> hp] : hp \in sortedByVariance(highPriorityAppended(cfg, <<>>, rs))}

-----------------------------------------------------------------------------
(* Store reads (internal/store) and the indexes of Run. *)

\* listValues reading the map without the lock: any part of it, in any order.
listValuesTorn(store) ==
    UNION {{[k \in DOMAIN ord |-> store[ord[k]]] : ord \in Orderings(part)} :
              part \in SUBSET DOMAIN store}

\* Store.ListTransactions / Store.ListSettlements: the values of the map, in
\* the order the range over the map yields them.
listValues(store) ==
    {[k \in DOMAIN ord |-> store[ord[k]]] : ord \in Orderings(DOMAIN store)}

keyOfRecord(r) == processorKey(r.ProcessorName, r.ProcessorTxnID)
orderIDOf(t) == t.OrderID

\* The key each transaction of the list is indexed under.
processorKeysOf(txns) == [i \in DOMAIN txns |-> keyOfRecord(txns[i])]
orderIDsOf(txns) == [i \in DOMAIN txns |-> orderIDOf(txns[i])]

\* "for _, t := range transactions { index[key(t)] = t }": the last wins.
indexBy(txns, keys) ==
    [k \in {keys[i] : i \in DOMAIN txns} |->
        txns[Max({i \in DOMAIN txns : keys[i] = k})]]

\* settlementsByKey: each key's settlements in list order.
groupByKey(setts) ==
    [k \in {keyOfRecord(setts[i]) : i \in DOMAIN setts} |->
        LET same(r) == keyOfRecord(r) = k IN SelectSeq(setts, same)]

\* Phase 1: "if len(setts) > 1".
isDuplicateGroup(setts) == Len(setts) > 1

\* Phase 2 without its "continue" guards.
skippedInPhase2Never(s, matchedS, dupKeys) == FALSE

\* Phase 2: the two "continue" guards.
skippedInPhase2(s, matchedS, dupKeys) ==
    s.ID \in matchedS \/ keyOfRecord(s) \in dupKeys

\* Phase 3: the "continue" guard.
skippedInPhase3(txn, matchedT) == txn.ID \in matchedT

-----------------------------------------------------------------------------
(* The three phases of Run.  The maps and the list a phase updates are the  *)
(* fields of st: results, resultID, matchedTxnIDs, matchedSettlementIDs,    *)
(* duplicateKeys.                                                            *)

initialRunState ==
    [results |-> <<>>, resultID |-> 0, matchedTxnIDs |-> {},
     matchedSettlementIDs |-> {}, duplicateKeys |-> {}]

\* phase1Group without "matchedTxnIDs[txn.ID] = true".
phase1GroupNoConsume(st, key, setts, byPK, byOrder) ==
    IF isDuplicateGroup(setts)
    THEN LET found == findTransaction(key, setts[1].OrderReference, byPK, byOrder)
         IN  [st EXCEPT
                !.duplicateKeys = @ \cup {key},
                !.results = @ \o [k \in DOMAIN setts |->
                                    duplicateResult(st.resultID + k, setts[k], found)],
                !.resultID = @ + Len(setts),
                !.matchedSettlementIDs = @ \cup {setts[k].ID : k \in DOMAIN setts}]
    ELSE st

\* Phase 1, the body of "for key, setts := range settlementsByKey".
phase1Group(st, key, setts, byPK, byOrder) ==
    IF isDuplicateGroup(setts)
    THEN LET found == findTransaction(key, setts[1].OrderReference, byPK, byOrder)
         IN  [st EXCEPT
                !.duplicateKeys = @ \cup {key},
                !.results = @ \o [k \in DOMAIN setts |->
                                    duplicateResult(st.resultID + k, setts[k], found)],
                !.resultID = @ + Len(setts),
                !.matchedTxnIDs = IF found # <<>> THEN @ \cup {found[1].ID} ELSE @,
                !.matchedSettlementIDs = @ \cup {setts[k].ID : k \in DOMAIN setts}]
    ELSE st

\* Phase 1 over the keys in the order keyOrder.
RECURSIVE phase1Loop(_, _, _, _, _)
phase1Loop(st, keyOrder, groups, byPK, byOrder) ==
    IF keyOrder = <<>> THEN st
    ELSE phase1Loop(phase1Group(st, Head(keyOrder), groups[Head(keyOrder)], byPK, byOrder),
                    Tail(keyOrder), groups, byPK, byOrder)

\* Phase 2, the body of "for _, s := range settlements".
phase2Settlement(cfg, st, s, byPK, byOrder) ==
    IF skippedInPhase2(s, st.matchedSettlementIDs, st.duplicateKeys) THEN st
    ELSE LET found == findTransaction(keyOfRecord(s), s.OrderReference, byPK, byOrder)
         IN  IF found = <<>>
             THEN [st EXCEPT
                     !.results = Append(@, unexpectedResult(st.resultID + 1, s)),
                     !.resultID = @ + 1,
                     !.matchedSettlementIDs = @ \cup {s.ID}]
             ELSE [st EXCEPT
                     !.results = Append(@, matchResult(cfg, st.resultID + 1, found[1], s)),
                     !.resultID = @ + 1,
                     !.matchedTxnIDs = @ \cup {found[1].ID},
                     !.matchedSettlementIDs = @ \cup {s.ID}]

RECURSIVE phase2Loop(_, _, _, _, _)
phase2Loop(cfg, st, setts, byPK, byOrder) ==
    IF setts = <<>> THEN st
    ELSE phase2Loop(cfg, phase2Settlement(cfg, st, Head(setts), byPK, byOrder),
                    Tail(setts), byPK, byOrder)

\* Phase 3, the body of "for _, txn := range transactions".
\* phase3Transaction putting the outcome at the head of the list.
phase3TransactionAtHead(st, txn) ==
    IF skippedInPhase3(txn, st.matchedTxnIDs) THEN st
    ELSE [st EXCEPT
            !.results = <<unsettledResult(st.resultID + 1, txn)>> \o @,
            !.resultID = @ + 1]

phase3Transaction(st, txn) ==
    IF skippedInPhase3(txn, st.matchedTxnIDs) THEN st
    ELSE [st EXCEPT
            !.results = Append(@, unsettledResult(st.resultID + 1, txn)),
            !.resultID = @ + 1]

RECURSIVE phase3Loop(_, _)
phase3Loop(st, txns) ==
    IF txns = <<>> THEN st ELSE phase3Loop(phase3Transaction(st, Head(txns)), Tail(txns))

\* The tracking variables, and the outcome list, after one whole pass of Run
\* over the lists txns and setts, phase 1 ranging over the keys in the order
\* keyOrder.
runFinalState(cfg, txns, setts, keyOrder) ==
    LET byPK == indexBy(txns, processorKeysOf(txns))
        byOrder == indexBy(txns, orderIDsOf(txns))
        st1 == phase1Loop(initialRunState, keyOrder, groupByKey(setts), byPK, byOrder)
        st2 == phase2Loop(cfg, st1, setts, byPK, byOrder)
    IN  phase3Loop(st2, txns)

runResults(cfg, txns, setts, keyOrder) == runFinalState(cfg, txns, setts, keyOrder).results

\* The tracking variables of Run as one record, and back.
runState ==
    [results |-> results, resultID |-> resultID, matchedTxnIDs |-> matchedTxnIDs,
     matchedSettlementIDs |-> matchedSettlementIDs, duplicateKeys |-> duplicateKeys]

setRunState(st) ==
    /\ results' = st.results
    /\ resultID' = st.resultID
    /\ matchedTxnIDs' = st.matchedTxnIDs
    /\ matchedSettlementIDs' = st.matchedSettlementIDs
    /\ duplicateKeys' = st.duplicateKeys

-----------------------------------------------------------------------------
(* Reconciler.Run, one action per store read and per phase. *)

\* transactions := r.store.ListTransactions()
ListTransactions ==
    /\ pc = "start"
    /\ transactions' \in listValues(storeTransactions)
    /\ pc' = "snapshot"
    /\ UNCHANGED <<serviceVars, storeTransactions, storeSettlements, config, settlements,
                   txnByProcessorKey, txnByOrderID, settlementsByKey, matchedTxnIDs,
                   matchedSettlementIDs, duplicateKeys, results, resultID, report>>

\* settlements := r.store.ListSettlements(), then the indexes and the empty
\* tracking maps.
ListSettlements ==
    /\ pc = "snapshot"
    /\ settlements' \in listValues(storeSettlements)
    /\ txnByProcessorKey' = indexBy(transactions, processorKeysOf(transactions))
    /\ txnByOrderID' = indexBy(transactions, orderIDsOf(transactions))
    /\ settlementsByKey' = groupByKey(settlements')
    /\ setRunState(initialRunState)
    /\ pc' = "phase1"
    /\ UNCHANGED <<serviceVars, storeTransactions, storeSettlements, config, transactions, report>>

\* Phase 1: the range over settlementsByKey, in any order of its keys.
DetectDuplicates ==
    /\ pc = "phase1"
    /\ \E keyOrder \in Orderings(DOMAIN settlementsByKey) :
          setRunState(phase1Loop(runState, keyOrder, settlementsByKey,
                                 txnByProcessorKey, txnByOrderID))
    /\ pc' = "phase2"
    /\ UNCHANGED <<serviceVars, storeTransactions, storeSettlements, config, transactions,
                   settlements, txnByProcessorKey, txnByOrderID, settlementsByKey,
                   report>>

\* Phase 2: the range over settlements.
MatchSettlements ==
    /\ pc = "phase2"
    /\ setRunState(phase2Loop(config, runState, settlements,
                              txnByProcessorKey, txnByOrderID))
    /\ pc' = "phase3"
    /\ UNCHANGED <<serviceVars, storeTransactions, storeSettlements, config, transactions,
                   settlements, txnByProcessorKey, txnByOrderID, settlementsByKey,
                   report>>

\* Phase 3: the range over transactions.
EmitUnsettled ==
    /\ pc = "phase3"
    /\ setRunState(phase3Loop(runState, transactions))
    /\ pc' = "report"
    /\ UNCHANGED <<serviceVars, storeTransactions, storeSettlements, config, transactions,
                   settlements, txnByProcessorKey, txnByOrderID, settlementsByKey,
                   report>>

\* report := r.buildReport(runID, transactions, settlements, results); return.
BuildReport ==
    /\ pc = "report"
    /\ report' \in buildReport(config, transactions, settlements, results)
    /\ pc' = "done"
    /\ UNCHANGED <<serviceVars, storeTransactions, storeSettlements, config, transactions,
                   settlements, txnByProcessorKey, txnByOrderID, settlementsByKey,
                   matchedTxnIDs, matchedSettlementIDs, duplicateKeys,
                   results, resultID>>

Next ==
    \/ ListTransactions
    \/ ListSettlements
    \/ DetectDuplicates
    \/ MatchSettlements
    \/ EmitUnsettled
    \/ BuildReport

Spec == Init /\ [][Next]_vars

-----------------------------------------------------------------------------
(* Ingestion concurrent with a run: the upload handlers commit under the    *)
(* store's lock at any point of Run.                                         *)

\* The records the uploads of this specification carry.
IngestTxns ==
    {Transaction("T1", "O1", "a", "c", 100, "USD", "MX", 0),
     Transaction("T2", "O2", "a", "b:c", 100, "USD", "BR", 0)}

IngestSetts ==
    {SettlementRecord("S1", "a", "c", "", 100, 0, 100, "USD", 48),
     SettlementRecord("S2", "a", "b:c", "", 100, 0, 100, "USD", 48)}

\* The request bodies: the handlers reject an empty list.
Batches(pool) == (SUBSET pool) \ {{}}

\* Store.AddTransactions / Store.AddSettlements: s.records[r.ID] = r for each
\* record of the batch.
addRecords(store, batch) ==
    [id \in (DOMAIN store) \cup {r.ID : r \in batch} |->
        IF \E r \in batch : r.ID = id
        THEN CHOOSE r \in batch : r.ID = id
        ELSE store[id]]

\* Handler.uploadTransactions
UploadTransactions ==
    /\ \E batch \in Batches(IngestTxns) :
          /\ storeTransactions' = addRecords(storeTransactions, batch)
          /\ held' = held \cup {[transactions |-> storeTransactions',
                                 settlements |-> storeSettlements]}
    /\ UNCHANGED <<storeSettlements, config, pc, transactions, settlements,
                   txnByProcessorKey, txnByOrderID, settlementsByKey, matchedTxnIDs,
                   matchedSettlementIDs, duplicateKeys, results, resultID, report,
                   handlerConfig, reconcilerConfig, runSeq, runs, request,
                   runObjects, concurrencyVars>>

\* Handler.uploadSettlements
UploadSettlements ==
    /\ \E batch \in Batches(IngestSetts) :
          /\ storeSettlements' = addRecords(storeSettlements, batch)
          /\ held' = held \cup {[transactions |-> storeTransactions,
                                 settlements |-> storeSettlements']}
    /\ UNCHANGED <<storeTransactions, config, pc, transactions, settlements,
                   txnByProcessorKey, txnByOrderID, settlementsByKey, matchedTxnIDs,
                   matchedSettlementIDs, duplicateKeys, results, resultID, report,
                   handlerConfig, reconcilerConfig, runSeq, runs, request,
                   runObjects, concurrencyVars>>

\* An empty store (store.New) and a Reconciler with the default config.
InitIngest ==
    /\ storeTransactions = <<>>
    /\ storeSettlements = <<>>
    /\ config = DefaultConfig
    /\ RunNotStarted
    /\ handlerConfig = DefaultConfig
    /\ reconcilerConfig = DefaultConfig
    /\ runSeq = 0
    /\ runs = <<>>
    /\ ServiceIdle
    /\ request = <<>>
    /\ held = {StoreContents}

NextIngest ==
    \/ UploadTransactions
    \/ UploadSettlements
    \/ ListTransactions
    \/ ListSettlements
    \/ DetectDuplicates
    \/ MatchSettlements
    \/ EmitUnsettled
    \/ BuildReport

SpecIngest == InitIngest /\ [][NextIngest]_vars

-----------------------------------------------------------------------------
(* The configuration and trigger handlers (internal/handler), one request   *)
(* at a time.  A run id "RUN-%04d" is the number it is formatted from.       *)

\* A decoded request body with no field set.
ZeroConfig ==
    [VarianceTolerancePct |-> 0, LateSettlementDays |-> 0,
     HighPriorityThreshold |-> 0, FXRates |-> <<>>]

\* The decoded bodies of the requests.
ConfigBodies ==
    {ZeroConfig,
     [ZeroConfig EXCEPT !.LateSettlementDays = 1],
     [ZeroConfig EXCEPT !.HighPriorityThreshold = 5, !.FXRates = ModelFXRates],
     [ZeroConfig EXCEPT !.VarianceTolerancePct = 2]}

\* triggerReconciliation: mergedCfg, h.config with the positive numeric fields
\* of the override.
mergedConfig(base, override) ==
    [base EXCEPT
        !.VarianceTolerancePct =
            IF override.VarianceTolerancePct > 0 THEN override.VarianceTolerancePct ELSE @,
        !.LateSettlementDays =
            IF override.LateSettlementDays > 0 THEN override.LateSettlementDays ELSE @,
        !.HighPriorityThreshold =
            IF override.HighPriorityThreshold > 0 THEN override.HighPriorityThreshold ELSE @]

\* triggerReconciliation: the config of the Reconciler that runs, for the
\* request body (<<>>: no body).
runConfig(body) ==
    IF /\ body # <<>>
       /\ \/ body[1].VarianceTolerancePct > 0
          \/ body[1].LateSettlementDays > 0
          \/ body[1].HighPriorityThreshold > 0
    THEN mergedConfig(handlerConfig, body[1])
    ELSE reconcilerConfig

\* Store.SaveRun: s.runs[run.ID] = run, run a pointer (the index of the object
\* in runObjects).
saveRun(rs, id, run) ==
    [i \in (DOMAIN rs) \cup {id} |-> IF i = id THEN run ELSE rs[i]]

\* Handler.updateConfig
UpdateConfig ==
    /\ \E cfg \in ConfigBodies :
          /\ handlerConfig' = cfg
          /\ reconcilerConfig' = cfg
    /\ UNCHANGED <<storeTransactions, storeSettlements, config, pc, transactions,
                   settlements, txnByProcessorKey, txnByOrderID, settlementsByKey,
                   matchedTxnIDs, matchedSettlementIDs, duplicateKeys, results,
                   resultID, report, runSeq, runs, request, held, runObjects,
                   concurrencyVars>>

\* triggerReconciliation serving a request with the given body: the run id,
\* the whole of Run under cfg, and the run saved as completed.
servedRun(body, cfg) ==
    \E txns \in listValues(storeTransactions), setts \in listValues(storeSettlements) :
    \E keyOrder \in Orderings(DOMAIN groupByKey(setts)) :
       LET st == runFinalState(cfg, txns, setts, keyOrder)
       IN  /\ request' = body
           /\ runSeq' = runSeq + 1
           /\ config' = cfg
           /\ transactions' = txns
           /\ settlements' = setts
           /\ txnByProcessorKey' = indexBy(txns, processorKeysOf(txns))
           /\ txnByOrderID' = indexBy(txns, orderIDsOf(txns))
           /\ settlementsByKey' = groupByKey(setts)
           /\ setRunState(st)
           /\ report' \in buildReport(cfg, txns, setts, st.results)
           /\ runObjects' = Append(runObjects,
                 [ID |-> runSeq', Status |-> "completed", Report |-> <<report'>>])
           /\ runs' = saveRun(runs, runSeq', Len(runObjects'))
           /\ pc' = "done"

\* triggerReconciliation keeping the merged config as the handler's.
TriggerReconciliationKeepingOverride ==
    /\ runSeq < MaxRuns
    /\ \E body \in {<<>>} \cup {<<b>> : b \in ConfigBodies} :
          /\ servedRun(body, runConfig(body))
          /\ handlerConfig' = runConfig(body)
          /\ reconcilerConfig' = runConfig(body)
    /\ UNCHANGED <<storeTransactions, storeSettlements, held, concurrencyVars>>

\* Handler.triggerReconciliation, one request at a time.
TriggerReconciliation ==
    /\ runSeq < MaxRuns
    /\ \E body \in {<<>>} \cup {<<b>> : b \in ConfigBodies} :
          servedRun(body, runConfig(body))
    /\ UNCHANGED <<storeTransactions, storeSettlements, handlerConfig,
                   reconcilerConfig, held, concurrencyVars>>

\* main: a Handler with the default config, on a store holding one
\* transaction and its settlement.
InitHandler ==
    /\ storeTransactions = [id \in {"T1"} |->
          Transaction("T1", "O1", "a", "c", 100, "USD", "MX", 0)]
    /\ storeSettlements = [id \in {"S1"} |->
          SettlementRecord("S1", "a", "c", "O1", 110, 0, 110, "USD", 48)]
    /\ config = DefaultConfig
    /\ RunNotStarted
    /\ handlerConfig = DefaultConfig
    /\ reconcilerConfig = DefaultConfig
    /\ runSeq = 0
    /\ runs = <<>>
    /\ ServiceIdle
    /\ request = <<>>
    /\ held = {StoreContents}

NextHandler ==
    \/ UpdateConfig
    \/ TriggerReconciliation

SpecHandler == InitHandler /\ [][NextHandler]_vars

-----------------------------------------------------------------------------
(* The store under concurrent clients (internal/store): every method takes  *)
(* s.mu, the writers for the whole of their loop, and a list call copies    *)
(* the map under the read lock.  One step per lock operation and per map    *)
(* assignment.                                                               *)

\* The variables of Run.
runVars == <<config, pc, transactions, settlements, txnByProcessorKey, txnByOrderID,
             settlementsByKey, matchedTxnIDs, matchedSettlementIDs, duplicateKeys,
             results, resultID, report>>

\* The fields of the Handler and the request of the serial trigger.
handlerVars == <<handlerConfig, reconcilerConfig, runSeq, request>>

\* s.mu.Lock() returns once no writer and no reader holds the mutex.
canLock(m) == ~m.writer /\ m.readers = 0

\* A read lock that does not wait for the writer.
canRLockAlways(m) == TRUE

\* s.mu.RLock() returns once no writer holds the mutex.
canRLock(m) == ~m.writer

\* Store.AddTransactions: s.mu.Lock()
AddTransactionsLock ==
    /\ canLock(mu)
    /\ mu' = [mu EXCEPT !.writer = TRUE]
    /\ \E batch \in Batches(IngestTxns) :
          writeOp' = <<[op |-> "AddTransactions", pending |-> batch]>>
    /\ UNCHANGED <<runVars, handlerVars, storeTransactions, storeSettlements, runs,
                   runObjects, held, readOp, serving, response>>

\* Store.AddTransactions: one s.transactions[t.ID] = t of the loop
AddTransactionsStore ==
    /\ writeOp # <<>>
    /\ writeOp[1].op = "AddTransactions"
    /\ \E t \in writeOp[1].pending :
          /\ storeTransactions' = addRecords(storeTransactions, {t})
          /\ writeOp' = <<[writeOp[1] EXCEPT !.pending = @ \ {t}]>>
    /\ UNCHANGED <<runVars, handlerVars, storeSettlements, runs, runObjects, held, mu,
                   readOp, serving, response>>

\* Store.AddTransactions: the deferred s.mu.Unlock()
AddTransactionsUnlock ==
    /\ writeOp # <<>>
    /\ writeOp[1].op = "AddTransactions"
    /\ writeOp[1].pending = {}
    /\ mu' = [mu EXCEPT !.writer = FALSE]
    /\ writeOp' = <<>>
    /\ held' = held \cup {StoreContents}
    /\ UNCHANGED <<runVars, handlerVars, storeTransactions, storeSettlements, runs,
                   runObjects, readOp, serving, response>>

\* Store.AddSettlements: s.mu.Lock()
AddSettlementsLock ==
    /\ canLock(mu)
    /\ mu' = [mu EXCEPT !.writer = TRUE]
    /\ \E batch \in Batches({s \in IngestSetts : s.ID = "S1"}) :
          writeOp' = <<[op |-> "AddSettlements", pending |-> batch]>>
    /\ UNCHANGED <<runVars, handlerVars, storeTransactions, storeSettlements, runs,
                   runObjects, held, readOp, serving, response>>

\* Store.AddSettlements: one s.settlements[r.ID] = r of the loop
AddSettlementsStore ==
    /\ writeOp # <<>>
    /\ writeOp[1].op = "AddSettlements"
    /\ \E r \in writeOp[1].pending :
          /\ storeSettlements' = addRecords(storeSettlements, {r})
          /\ writeOp' = <<[writeOp[1] EXCEPT !.pending = @ \ {r}]>>
    /\ UNCHANGED <<runVars, handlerVars, storeTransactions, runs, runObjects, held, mu,
                   readOp, serving, response>>

\* Store.AddSettlements: the deferred s.mu.Unlock()
AddSettlementsUnlock ==
    /\ writeOp # <<>>
    /\ writeOp[1].op = "AddSettlements"
    /\ writeOp[1].pending = {}
    /\ mu' = [mu EXCEPT !.writer = FALSE]
    /\ writeOp' = <<>>
    /\ held' = held \cup {StoreContents}
    /\ UNCHANGED <<runVars, handlerVars, storeTransactions, storeSettlements, runs,
                   runObjects, readOp, serving, response>>

\* Store.Clear: s.mu.Lock()
ClearLock ==
    /\ canLock(mu)
    /\ mu' = [mu EXCEPT !.writer = TRUE]
    /\ writeOp' = <<[op |-> "Clear", pending |-> {"transactions", "settlements", "runs"}]>>
    /\ UNCHANGED <<runVars, handlerVars, storeTransactions, storeSettlements, runs,
                   runObjects, held, readOp, serving, response>>

\* Store.Clear: s.transactions = make(...)
ClearTransactions ==
    /\ writeOp # <<>>
    /\ writeOp[1].op = "Clear"
    /\ writeOp[1].pending = {"transactions", "settlements", "runs"}
    /\ storeTransactions' = <<>>
    /\ writeOp' = <<[writeOp[1] EXCEPT !.pending = {"settlements", "runs"}]>>
    /\ UNCHANGED <<runVars, handlerVars, storeSettlements, runs, runObjects, held, mu,
                   readOp, serving, response>>

\* Store.Clear: s.settlements = make(...)
ClearSettlements ==
    /\ writeOp # <<>>
    /\ writeOp[1].op = "Clear"
    /\ writeOp[1].pending = {"settlements", "runs"}
    /\ storeSettlements' = <<>>
    /\ writeOp' = <<[writeOp[1] EXCEPT !.pending = {"runs"}]>>
    /\ UNCHANGED <<runVars, handlerVars, storeTransactions, runs, runObjects, held, mu,
                   readOp, serving, response>>

\* Store.Clear: s.runs = make(...)
ClearRuns ==
    /\ writeOp # <<>>
    /\ writeOp[1].op = "Clear"
    /\ writeOp[1].pending = {"runs"}
    /\ runs' = <<>>
    /\ writeOp' = <<[writeOp[1] EXCEPT !.pending = {}]>>
    /\ UNCHANGED <<runVars, handlerVars, storeTransactions, storeSettlements,
                   runObjects, held, mu, readOp, serving, response>>

\* Store.Clear: the deferred s.mu.Unlock()
ClearUnlock ==
    /\ writeOp # <<>>
    /\ writeOp[1].op = "Clear"
    /\ writeOp[1].pending = {}
    /\ mu' = [mu EXCEPT !.writer = FALSE]
    /\ writeOp' = <<>>
    /\ held' = held \cup {StoreContents}
    /\ UNCHANGED <<runVars, handlerVars, storeTransactions, storeSettlements, runs,
                   runObjects, readOp, serving, response>>

\* The client is not inside a list call.
readerIdle == IF readOp = <<>> THEN TRUE ELSE readOp[1].state = "returned"

\* Store.ListTransactions: s.mu.RLock()
ListTransactionsRLock ==
    /\ readerIdle
    /\ canRLock(mu)
    /\ mu' = [mu EXCEPT !.readers = @ + 1]
    /\ readOp' = <<[call |-> "ListTransactions", state |-> "locked", list |-> <<>>]>>
    /\ UNCHANGED <<runVars, handlerVars, storeTransactions, storeSettlements, runs,
                   runObjects, held, writeOp, serving, response>>

\* Store.ListTransactions: the copy of the map's values, then the deferred
\* s.mu.RUnlock()
ListTransactionsReturn ==
    /\ readOp # <<>>
    /\ readOp[1].call = "ListTransactions"
    /\ readOp[1].state = "locked"
    /\ \E list \in listValues(storeTransactions) :
          readOp' = <<[readOp[1] EXCEPT !.state = "returned", !.list = list]>>
    /\ mu' = [mu EXCEPT !.readers = @ - 1]
    /\ UNCHANGED <<runVars, handlerVars, storeTransactions, storeSettlements, runs,
                   runObjects, held, writeOp, serving, response>>

\* Store.ListSettlements: s.mu.RLock()
ListSettlementsRLock ==
    /\ readerIdle
    /\ canRLock(mu)
    /\ mu' = [mu EXCEPT !.readers = @ + 1]
    /\ readOp' = <<[call |-> "ListSettlements", state |-> "locked", list |-> <<>>]>>
    /\ UNCHANGED <<runVars, handlerVars, storeTransactions, storeSettlements, runs,
                   runObjects, held, writeOp, serving, response>>

\* Store.ListSettlements: the copy of the map's values, then the deferred
\* s.mu.RUnlock()
ListSettlementsReturn ==
    /\ readOp # <<>>
    /\ readOp[1].call = "ListSettlements"
    /\ readOp[1].state = "locked"
    /\ \E list \in listValues(storeSettlements) :
          readOp' = <<[readOp[1] EXCEPT !.state = "returned", !.list = list]>>
    /\ mu' = [mu EXCEPT !.readers = @ - 1]
    /\ UNCHANGED <<runVars, handlerVars, storeTransactions, storeSettlements, runs,
                   runObjects, held, writeOp, serving, response>>

NextStore ==
    \/ AddTransactionsLock
    \/ AddTransactionsStore
    \/ AddTransactionsUnlock
    \/ AddSettlementsLock
    \/ AddSettlementsStore
    \/ AddSettlementsUnlock
    \/ ClearLock
    \/ ClearTransactions
    \/ ClearSettlements
    \/ ClearRuns
    \/ ClearUnlock
    \/ ListTransactionsRLock
    \/ ListTransactionsReturn
    \/ ListSettlementsRLock
    \/ ListSettlementsReturn

\* store.New, then any interleaving of the clients' store calls.
SpecStore == InitIngest /\ [][NextStore]_vars

-----------------------------------------------------------------------------
(* Concurrent requests to the handler (net/http serves each request on its  *)
(* own goroutine): triggerReconciliation one step per access to what the    *)
(* requests share (h.runSeq, the store, the run object), beside the readers *)
(* of the runs.  serving[p] holds the locals of request p.                   *)

\* A new request: the load of h.runSeq++ (the increment takes no lock, so its
\* load and its store are two accesses other requests can come between).
TriggerLoadRunSeq ==
    /\ Len(serving) < MaxRequests
    /\ serving' = Append(serving, [pc |-> "store", seq |-> runSeq, runID |-> 0,
                                   run |-> 0, report |-> <<>>])
    /\ UNCHANGED <<runVars, handlerVars, storeTransactions, storeSettlements, runs,
                   runObjects, held, mu, writeOp, readOp, response>>

\* The store of h.runSeq++
TriggerStoreRunSeq(p) ==
    /\ serving[p].pc = "store"
    /\ runSeq' = serving[p].seq + 1
    /\ serving' = [serving EXCEPT ![p].pc = "format"]
    /\ UNCHANGED <<runVars, handlerConfig, reconcilerConfig, request, storeTransactions,
                   storeSettlements, runs, runObjects, held, mu, writeOp, readOp, response>>

\* runID := fmt.Sprintf("RUN-%04d", h.runSeq)
TriggerFormatRunID(p) ==
    /\ serving[p].pc = "format"
    /\ serving' = [serving EXCEPT ![p].runID = runSeq, ![p].pc = "save"]
    /\ UNCHANGED <<runVars, handlerVars, storeTransactions, storeSettlements, runs,
                   runObjects, held, mu, writeOp, readOp, response>>

\* run := &ReconciliationRun{ID: runID, Status: "running"}; h.store.SaveRun(run)
TriggerSaveRunning(p) ==
    /\ serving[p].pc = "save"
    /\ runObjects' = Append(runObjects,
          [ID |-> serving[p].runID, Status |-> "running", Report |-> <<>>])
    /\ runs' = saveRun(runs, serving[p].runID, Len(runObjects'))
    /\ serving' = [serving EXCEPT ![p].run = Len(runObjects'), ![p].pc = "run"]
    /\ UNCHANGED <<runVars, handlerVars, storeTransactions, storeSettlements, held, mu,
                   writeOp, readOp, response>>

\* report := rec.Run(runID), with no override in the request
TriggerRun(p) ==
    /\ serving[p].pc = "run"
    /\ \E txns \in listValues(storeTransactions), setts \in listValues(storeSettlements) :
       \E keyOrder \in Orderings(DOMAIN groupByKey(setts)) :
       \E rep \in buildReport(reconcilerConfig, txns, setts,
                              runResults(reconcilerConfig, txns, setts, keyOrder)) :
          serving' = [serving EXCEPT ![p].report = <<rep>>, ![p].pc = "complete"]
    /\ UNCHANGED <<runVars, handlerVars, storeTransactions, storeSettlements, runs,
                   runObjects, held, mu, writeOp, readOp, response>>

\* run.Status = "completed", a write to the object the store points to
TriggerSetCompleted(p) ==
    /\ serving[p].pc = "complete"
    /\ runObjects' = [runObjects EXCEPT ![serving[p].run].Status = "completed"]
    /\ serving' = [serving EXCEPT ![p].pc = "attach"]
    /\ UNCHANGED <<runVars, handlerVars, storeTransactions, storeSettlements, runs, held,
                   mu, writeOp, readOp, response>>

\* run.Report = report
TriggerAttachReport(p) ==
    /\ serving[p].pc = "attach"
    /\ runObjects' = [runObjects EXCEPT ![serving[p].run].Report = serving[p].report]
    /\ serving' = [serving EXCEPT ![p].pc = "resave"]
    /\ UNCHANGED <<runVars, handlerVars, storeTransactions, storeSettlements, runs, held,
                   mu, writeOp, readOp, response>>

\* h.store.SaveRun(run), and the response
TriggerSaveCompleted(p) ==
    /\ serving[p].pc = "resave"
    /\ runs' = saveRun(runs, serving[p].runID, serving[p].run)
    /\ serving' = [serving EXCEPT ![p].pc = "done"]
    /\ UNCHANGED <<runVars, handlerVars, storeTransactions, storeSettlements, runObjects,
                   held, mu, writeOp, readOp, response>>

\* Handler.getRun: the run object as the encoder reads it
GetRun ==
    /\ \E id \in DOMAIN runs :
          response' = <<[handler |-> "getRun", run |-> runObjects[runs[id]]]>>
    /\ UNCHANGED <<runVars, handlerVars, storeTransactions, storeSettlements, runs,
                   runObjects, held, mu, writeOp, readOp, serving>>

\* Handler.getReport: the report of the run, or "not available yet" (<<>>)
GetReport ==
    /\ \E id \in DOMAIN runs :
          response' = <<[handler |-> "getReport", id |-> id,
                         report |-> runObjects[runs[id]].Report]>>
    /\ UNCHANGED <<runVars, handlerVars, storeTransactions, storeSettlements, runs,
                   runObjects, held, mu, writeOp, readOp, serving>>

\* Handler.listRuns: id and status of every stored run, in the order of the
\* range over the map
ListRuns ==
    /\ \E order \in Orderings(DOMAIN runs) :
          response' = <<[handler |-> "listRuns",
                         summaries |-> [k \in DOMAIN order |->
                            [ID |-> runObjects[runs[order[k]]].ID,
                             Status |-> runObjects[runs[order[k]]].Status]]]>>
    /\ UNCHANGED <<runVars, handlerVars, storeTransactions, storeSettlements, runs,
                   runObjects, held, mu, writeOp, readOp, serving>>

NextServe ==
    \/ TriggerLoadRunSeq
    \/ \E p \in DOMAIN serving : TriggerStoreRunSeq(p)
    \/ \E p \in DOMAIN serving : TriggerFormatRunID(p)
    \/ \E p \in DOMAIN serving : TriggerSaveRunning(p)
    \/ \E p \in DOMAIN serving : TriggerRun(p)
    \/ \E p \in DOMAIN serving : TriggerSetCompleted(p)
    \/ \E p \in DOMAIN serving : TriggerAttachReport(p)
    \/ \E p \in DOMAIN serving : TriggerSaveCompleted(p)
    \/ GetRun
    \/ GetReport
    \/ ListRuns

\* main, then requests served concurrently.
SpecServe == InitHandler /\ [][NextServe]_vars

-----------------------------------------------------------------------------
(* Vocabulary of the properties. *)

Done == pc = "done"

\* The outcome list Run returned.
Outcomes == report.Results

SnapshotTxns == {transactions[i] : i \in DOMAIN transactions}
SnapshotSetts == {settlements[i] : i \in DOMAIN settlements}

OutcomesOfSettlement(id) == {k \in DOMAIN Outcomes : Outcomes[k].SettlementID = id}
OutcomesOfTransaction(id) == {k \in DOMAIN Outcomes : Outcomes[k].TransactionID = id}

\* The settlements of the snapshot that share s's processor key, s included.
KeyGroup(s) == {u \in SnapshotSetts : keyOfRecord(u) = keyOfRecord(s)}
InDuplicateGroup(s) == Cardinality(KeyGroup(s)) > 1

SettlementBearing == {StatusMatched, StatusMatchedWithVariance, StatusDuplicate}
Phase2Statuses == {StatusMatched, StatusMatchedWithVariance, StatusUnexpectedSettlement}

MaxOf(a, b) == IF a >= b THEN a ELSE b

-----------------------------------------------------------------------------
(* C1 *)

\* C1 (exhaustiveness): when Run returns, the outcome list is at least as long
\* as the longer of the two snapshots, every settlement id is the SettlementID
\* of some outcome and every transaction id is the TransactionID of some outcome.
C1_Exhaustive ==
    Done =>
        /\ Len(Outcomes) >= MaxOf(Len(transactions), Len(settlements))
        /\ \A s \in SnapshotSetts : OutcomesOfSettlement(s.ID) # {}
        /\ \A t \in SnapshotTxns : OutcomesOfTransaction(t.ID) # {}

\* A finished run over two transactions and three settlements that reported a
\* duplicate group, an unexpected settlement and an unsettled transaction.
C1_Witness ==
    /\ Done
    /\ Len(transactions) = 2
    /\ Len(settlements) = 3
    /\ \E k \in DOMAIN Outcomes : Outcomes[k].Status = StatusDuplicate
    /\ \E k \in DOMAIN Outcomes : Outcomes[k].Status = StatusUnexpectedSettlement
    /\ \E k \in DOMAIN Outcomes : Outcomes[k].Status = StatusUnsettled

-----------------------------------------------------------------------------
(* C2 *)

\* C2 (as claimed): when Run returns, every transaction of the snapshot is
\* referenced by exactly one outcome, unless the outcomes referencing it are
\* the duplicate outcomes of one duplicate group and nothing else.
C2_OneOutcomePerTransaction ==
    Done =>
        \A t \in SnapshotTxns :
            LET refs == OutcomesOfTransaction(t.ID)
            IN  \/ Cardinality(refs) = 1
                \/ /\ refs # {}
                   /\ \A k \in refs : Outcomes[k].Status = StatusDuplicate
                   /\ \A k, m \in refs :
                        \E s \in SnapshotSetts :
                            /\ Outcomes[k].SettlementID \in {u.ID : u \in KeyGroup(s)}
                            /\ Outcomes[m].SettlementID \in {u.ID : u \in KeyGroup(s)}

-----------------------------------------------------------------------------
(* C3 *)

\* C3: every settlement of the snapshot is referenced by exactly one outcome.
\* After phase 1 the members of duplicate groups have their one outcome, a
\* duplicate, and no other settlement has any; after phase 2, and in the list
\* Run returns, every settlement has exactly one, a phase-2 outcome unless it is
\* in a duplicate group.
C3_OneOutcomePerSettlement ==
    LET of(id) == {k \in DOMAIN results : results[k].SettlementID = id}
    IN  /\ pc = "phase2" =>
            \A s \in SnapshotSetts :
                IF InDuplicateGroup(s)
                THEN /\ Cardinality(of(s.ID)) = 1
                     /\ \A k \in of(s.ID) : results[k].Status = StatusDuplicate
                ELSE of(s.ID) = {}
        /\ pc \in {"phase3", "report", "done"} =>
            \A s \in SnapshotSetts :
                /\ Cardinality(of(s.ID)) = 1
                /\ \A k \in of(s.ID) :
                      IF InDuplicateGroup(s)
                      THEN results[k].Status = StatusDuplicate
                      ELSE results[k].Status \in Phase2Statuses
        /\ Done => Outcomes = results

\* A finished run with a duplicate group and a settlement outside it.
C3_Witness ==
    /\ Done
    /\ \E s, u \in SnapshotSetts : InDuplicateGroup(s) /\ ~InDuplicateGroup(u)

-----------------------------------------------------------------------------
(* C4 *)

\* C4 (as claimed): when Run returns, a settlement's outcome is a duplicate
\* exactly when another settlement of the snapshot has the same processor name
\* and the same processor transaction id; the n > 1 settlements that share a
\* name and an id have n duplicate outcomes between them and no other outcome.
SameNameAndID(s) ==
    {u \in SnapshotSetts : /\ u.ProcessorName = s.ProcessorName
                           /\ u.ProcessorTxnID = s.ProcessorTxnID}

C4_DuplicateIffSameNameAndID ==
    Done =>
        \A s \in SnapshotSetts :
            LET group == SameNameAndID(s)
                outs == UNION {OutcomesOfSettlement(u.ID) : u \in group}
            IN  /\ (\E k \in OutcomesOfSettlement(s.ID) : Outcomes[k].Status = StatusDuplicate)
                      <=> Cardinality(group) > 1
                /\ Cardinality(group) > 1 =>
                      /\ Cardinality(outs) = Cardinality(group)
                      /\ \A k \in outs : Outcomes[k].Status = StatusDuplicate

\* The same statement over the settlements that share a processor key: it
\* holds of every run, whether or not a transaction is found for the group.
C4_DuplicateIffSameKey ==
    Done =>
        \A s \in SnapshotSetts :
            LET group == KeyGroup(s)
                outs == UNION {OutcomesOfSettlement(u.ID) : u \in group}
            IN  /\ (\E k \in OutcomesOfSettlement(s.ID) : Outcomes[k].Status = StatusDuplicate)
                      <=> Cardinality(group) > 1
                /\ Cardinality(group) > 1 =>
                      /\ Cardinality(outs) = Cardinality(group)
                      /\ \A k \in outs : Outcomes[k].Status = StatusDuplicate

-----------------------------------------------------------------------------
(* C5 *)

\* C5: when Run returns, a transaction with no matched, matched_with_variance
\* or duplicate outcome referencing it has exactly one unsettled outcome, and a
\* transaction some such outcome references has none.
C5_UnsettledIffUnreferenced ==
    Done =>
        \A t \in SnapshotTxns :
            LET refs == {k \in OutcomesOfTransaction(t.ID) :
                            Outcomes[k].Status \in SettlementBearing}
                uns == {k \in OutcomesOfTransaction(t.ID) :
                            Outcomes[k].Status = StatusUnsettled}
            IN  IF refs = {} THEN Cardinality(uns) = 1 ELSE uns = {}

\* A finished run in which one transaction was found for a duplicate group and
\* another transaction is unsettled.
C5_Witness ==
    /\ Done
    /\ \E k \in DOMAIN Outcomes :
          Outcomes[k].Status = StatusDuplicate /\ Outcomes[k].TransactionID # ""
    /\ \E k \in DOMAIN Outcomes : Outcomes[k].Status = StatusUnsettled

-----------------------------------------------------------------------------
(* C6 *)

\* The settlements outside duplicate groups for which no transaction of the
\* snapshot has the processor key and none has the order reference as order id.
Unmatchable ==
    {s \in SnapshotSetts :
        /\ ~InDuplicateGroup(s)
        /\ \A t \in SnapshotTxns :
              keyOfRecord(t) # keyOfRecord(s) /\ t.OrderID # s.OrderReference}

\* C6: such a settlement is emitted once, as unexpected_settlement with variance
\* its full gross amount, expected amount 0 and no transaction reference, and
\* it consumes no transaction: the phase-2 body leaves the consumed set as it
\* is, and every consumed transaction is one that a matched,
\* matched_with_variance or duplicate outcome references.
C6_UnexpectedSettlement ==
    /\ pc = "phase2" =>
          \A s \in Unmatchable :
              LET st == phase2Settlement(config, runState, s,
                                         txnByProcessorKey, txnByOrderID)
              IN  /\ st.matchedTxnIDs = matchedTxnIDs
                  /\ Len(st.results) = Len(results) + 1
    /\ pc \in {"phase3", "report", "done"} =>
          /\ \A s \in Unmatchable :
                LET outs == {k \in DOMAIN results : results[k].SettlementID = s.ID}
                IN  /\ Cardinality(outs) = 1
                    /\ \A k \in outs :
                          /\ results[k].Status = StatusUnexpectedSettlement
                          /\ results[k].VarianceAmount = s.GrossAmount
                          /\ results[k].ExpectedAmount = 0
                          /\ results[k].TransactionID = ""
          /\ matchedTxnIDs =
                {results[k].TransactionID :
                    k \in {m \in DOMAIN results : results[m].Status \in SettlementBearing}}
                \ {""}

\* A finished run with such a settlement next to a transaction that another
\* settlement consumed.
C6_Witness ==
    /\ Done
    /\ Unmatchable # {}
    /\ matchedTxnIDs # {}

-----------------------------------------------------------------------------
(* C7 *)

TxnsWithKeyOf(s) == {t \in SnapshotTxns : keyOfRecord(t) = keyOfRecord(s)}
TxnsWithOrderOf(s) == {t \in SnapshotTxns : t.OrderID = s.OrderReference}

\* C7 (as claimed): for a settlement outside duplicate groups, if some
\* transaction has its processor key the settlement is paired with a
\* transaction that has it; otherwise, whenever some transaction's order id
\* equals its order reference, it is paired with such a transaction and not
\* reported as unexpected_settlement.
C7_LookupAsClaimed ==
    Done =>
        \A s \in SnapshotSetts : ~InDuplicateGroup(s) =>
            \A k \in OutcomesOfSettlement(s.ID) :
                IF TxnsWithKeyOf(s) # {}
                THEN Outcomes[k].TransactionID \in {t.ID : t \in TxnsWithKeyOf(s)}
                ELSE TxnsWithOrderOf(s) # {} =>
                        /\ Outcomes[k].Status # StatusUnexpectedSettlement
                        /\ Outcomes[k].TransactionID \in {t.ID : t \in TxnsWithOrderOf(s)}

\* C7 (amended): the same, the fallback applying only to a settlement whose
\* order reference is not empty.
C7_Lookup ==
    Done =>
        \A s \in SnapshotSetts : ~InDuplicateGroup(s) =>
            \A k \in OutcomesOfSettlement(s.ID) :
                IF TxnsWithKeyOf(s) # {}
                THEN Outcomes[k].TransactionID \in {t.ID : t \in TxnsWithKeyOf(s)}
                ELSE (s.OrderReference # "" /\ TxnsWithOrderOf(s) # {}) =>
                        /\ Outcomes[k].Status # StatusUnexpectedSettlement
                        /\ Outcomes[k].TransactionID \in {t.ID : t \in TxnsWithOrderOf(s)}

\* A finished run in which a settlement was paired by processor key although
\* another transaction has its order reference as order id.
C7_Witness ==
    /\ Done
    /\ \E s \in SnapshotSetts :
          /\ ~InDuplicateGroup(s)
          /\ TxnsWithKeyOf(s) # {}
          /\ s.OrderReference # ""
          /\ \E t \in TxnsWithOrderOf(s) : t \notin TxnsWithKeyOf(s)
          /\ \E k \in OutcomesOfSettlement(s.ID) :
                Outcomes[k].TransactionID \in {t.ID : t \in TxnsWithKeyOf(s)}

-----------------------------------------------------------------------------
(* Vocabulary of the amount properties. *)

\* The outcomes that pair a settlement with a transaction in phase 2.
Paired == {k \in DOMAIN Outcomes :
              Outcomes[k].Status \in {StatusMatched, StatusMatchedWithVariance}}

TxnOf(k) == CHOOSE t \in SnapshotTxns : t.ID = Outcomes[k].TransactionID
SettOf(k) == CHOOSE s \in SnapshotSetts : s.ID = Outcomes[k].SettlementID

\* |variance| against expectedAmount * variance_tolerance_pct, both scaled by PctScale.
AtTolerance(k) ==
    Abs(Outcomes[k].VarianceAmount) * PctScale
        = Outcomes[k].ExpectedAmount * config.VarianceTolerancePct
BeyondTolerance(k) ==
    Abs(Outcomes[k].VarianceAmount) * PctScale
        > Outcomes[k].ExpectedAmount * config.VarianceTolerancePct

\* The fee override of the code: same currency, a positive fee, and
\* |variance + fee| strictly under 0.01.
FeeOverrides(k) ==
    /\ TxnOf(k).Currency = SettOf(k).Currency
    /\ SettOf(k).FeeAmount > 0
    /\ Abs(Outcomes[k].VarianceAmount + SettOf(k).FeeAmount) < RoundingFloor

-----------------------------------------------------------------------------
(* C8 *)

\* C8: for a settlement paired with a transaction of the same currency, with
\* tolerance 0 and a fee that does not explain the variance, the outcome's
\* variance is gross amount minus transaction amount, and the status is
\* matched when |variance| <= 0.01 and matched_with_variance when it is larger.
C8_VarianceClassification ==
    Done =>
        \A k \in Paired :
            LET t == TxnOf(k)
                s == SettOf(k)
                v == s.GrossAmount - t.Amount
            IN  (/\ t.Currency = s.Currency
                 /\ config.VarianceTolerancePct = 0
                 /\ ~(s.FeeAmount > 0 /\ Abs(v + s.FeeAmount) < RoundingFloor))
                => /\ Outcomes[k].VarianceAmount = v
                   /\ Abs(v) <= RoundingFloor => Outcomes[k].Status = StatusMatched
                   /\ Abs(v) > RoundingFloor => Outcomes[k].Status = StatusMatchedWithVariance

\* A finished run with a same-currency pair, tolerance 0, and a variance of
\* exactly 0.01 reported as matched.
C8_Witness ==
    /\ Done
    /\ config.VarianceTolerancePct = 0
    /\ \E k \in Paired :
          /\ TxnOf(k).Currency = SettOf(k).Currency
          /\ Abs(SettOf(k).GrossAmount - TxnOf(k).Amount) = RoundingFloor
          /\ SettOf(k).FeeAmount = 0
          /\ Outcomes[k].Status = StatusMatched

-----------------------------------------------------------------------------
(* C9 *)

\* C9 (as claimed): a paired settlement whose |variance| is exactly
\* expectedAmount * variance_tolerance_pct is matched, and one whose |variance|
\* is beyond it by any amount is matched_with_variance.
C9_ToleranceBoundaryAsClaimed ==
    Done =>
        \A k \in Paired :
            /\ AtTolerance(k) => Outcomes[k].Status = StatusMatched
            /\ BeyondTolerance(k) => Outcomes[k].Status = StatusMatchedWithVariance

\* C9 (amended): a paired settlement whose |variance| is exactly
\* expectedAmount * variance_tolerance_pct is matched; one whose |variance| is
\* beyond it is matched_with_variance provided |variance| also exceeds the 0.01
\* floor and the fee override does not apply.
C9_ToleranceBoundary ==
    Done =>
        \A k \in Paired :
            /\ AtTolerance(k) => Outcomes[k].Status = StatusMatched
            /\ (/\ BeyondTolerance(k)
                /\ Abs(Outcomes[k].VarianceAmount) > RoundingFloor
                /\ ~FeeOverrides(k))
               => Outcomes[k].Status = StatusMatchedWithVariance

\* A finished run with a positive tolerance and a pair whose |variance| is
\* above the floor and exactly at the tolerance, reported as matched.
C9_Witness ==
    /\ Done
    /\ config.VarianceTolerancePct > 0
    /\ \E k \in Paired :
          /\ AtTolerance(k)
          /\ Abs(Outcomes[k].VarianceAmount) > RoundingFloor
          /\ Outcomes[k].Status = StatusMatched

-----------------------------------------------------------------------------
(* C10 *)

\* C10 (as claimed): for a paired settlement whose |variance| exceeds the 0.01
\* floor and the tolerance, the status is matched exactly when the currencies
\* are equal and |variance + fee| <= 0.01, and matched_with_variance otherwise.
C10_FeeOverrideAsClaimed ==
    Done =>
        \A k \in Paired :
            (Abs(Outcomes[k].VarianceAmount) > RoundingFloor /\ BeyondTolerance(k)) =>
                IF /\ TxnOf(k).Currency = SettOf(k).Currency
                   /\ Abs(Outcomes[k].VarianceAmount + SettOf(k).FeeAmount) <= RoundingFloor
                THEN Outcomes[k].Status = StatusMatched
                ELSE Outcomes[k].Status = StatusMatchedWithVariance

\* C10 (amended): for such a settlement the status is matched exactly when the
\* currencies are equal, the fee is positive and |variance + fee| < 0.01, and
\* matched_with_variance otherwise.
C10_FeeOverride ==
    Done =>
        \A k \in Paired :
            (Abs(Outcomes[k].VarianceAmount) > RoundingFloor /\ BeyondTolerance(k)) =>
                IF FeeOverrides(k)
                THEN Outcomes[k].Status = StatusMatched
                ELSE Outcomes[k].Status = StatusMatchedWithVariance

\* A finished run with a pair beyond floor and tolerance whose fee explains the
\* variance, reported as matched.
C10_Witness ==
    /\ Done
    /\ \E k \in Paired :
          /\ Abs(Outcomes[k].VarianceAmount) > RoundingFloor
          /\ BeyondTolerance(k)
          /\ FeeOverrides(k)
          /\ Outcomes[k].Status = StatusMatched

-----------------------------------------------------------------------------
(* C11 *)

\* The statuses an outcome list gives each transaction and each settlement.
classification(rs, txnIDs, settIDs) ==
    [txn  |-> [id \in txnIDs |->
                 {rs[k].Status : k \in {j \in DOMAIN rs : rs[j].TransactionID = id}}],
     sett |-> [id \in settIDs |->
                 {rs[k].Status : k \in {j \in DOMAIN rs : rs[j].SettlementID = id}}]]

\* C11: for a fixed store and config, a run over any other listing of the
\* same records (any order of the transaction list, of the settlement list and
\* of the phase-1 keys) gives every transaction and every settlement the same
\* statuses as the finished run.
C11_ClassificationDeterminism ==
    Done =>
        \A txns \in listValues(storeTransactions), setts \in listValues(storeSettlements) :
            \A keyOrder \in Orderings(DOMAIN groupByKey(setts)) :
                classification(runResults(config, txns, setts, keyOrder),
                               DOMAIN storeTransactions, DOMAIN storeSettlements)
                    = classification(results,
                                     DOMAIN storeTransactions, DOMAIN storeSettlements)

-----------------------------------------------------------------------------
(* C12 *)

\* The number of outcomes of the report with the given status.
CountOf(status) == Cardinality({k \in DOMAIN Outcomes : Outcomes[k].Status = status})

\* C12: in the overall summary, reconciliation_rate is
\* (matched + matched_with_variance) * 100 over the number of outcomes of the
\* five statuses when that number is nonzero, and 0 when it is zero.
C12_RateFormula ==
    Done =>
        LET paired == CountOf(StatusMatched) + CountOf(StatusMatchedWithVariance)
            total == paired + CountOf(StatusUnsettled)
                       + CountOf(StatusUnexpectedSettlement) + CountOf(StatusDuplicate)
            rate == report.Summary.ReconciliationRate
        IN  /\ rate.d > 0
            /\ IF total > 0
               THEN rate.n * total = paired * 100 * rate.d
               ELSE rate.n = 0

\* A finished run whose outcomes are partly paired and partly not, so that the
\* rate is strictly between 0 and 100.
C12_Witness ==
    /\ Done
    /\ CountOf(StatusMatched) + CountOf(StatusMatchedWithVariance) > 0
    /\ CountOf(StatusUnsettled) + CountOf(StatusUnexpectedSettlement)
         + CountOf(StatusDuplicate) > 0
    /\ report.Summary.ReconciliationRate.n * Len(Outcomes)
         = (CountOf(StatusMatched) + CountOf(StatusMatchedWithVariance))
             * 100 * report.Summary.ReconciliationRate.d

-----------------------------------------------------------------------------
(* C13 *)

HighPriority == report.HighPriority

\* The two grounds on which an outcome is a high-priority discrepancy.
OverThreshold(res) ==
    res.Status # StatusMatched /\ Abs(res.VarianceAmount) >= config.HighPriorityThreshold
SettledLate(res) ==
    res.DaysToSettle # <<>> /\ res.DaysToSettle[1] > config.LateSettlementDays

\* C13: every element of the high-priority list is an outcome of the report;
\* an outcome that is over the threshold or settled late is in the list exactly
\* once (also when both hold), and any other outcome is not in it.
C13_HighPriorityMembership ==
    Done =>
        /\ \A h \in DOMAIN HighPriority : \E k \in DOMAIN Outcomes : HighPriority[h] = Outcomes[k]
        /\ \A k \in DOMAIN Outcomes :
              Cardinality({h \in DOMAIN HighPriority : HighPriority[h].ID = Outcomes[k].ID})
                = IF OverThreshold(Outcomes[k]) \/ SettledLate(Outcomes[k]) THEN 1 ELSE 0

\* A finished run with an outcome that is both over the threshold and late, a
\* matched outcome of zero variance that is late, and an outcome that is
\* neither, the first two listed.
C13_Witness ==
    /\ Done
    /\ \E k \in DOMAIN Outcomes :
          /\ OverThreshold(Outcomes[k]) /\ SettledLate(Outcomes[k])
          /\ \E h \in DOMAIN HighPriority : HighPriority[h] = Outcomes[k]
    /\ \E k \in DOMAIN Outcomes :
          /\ Outcomes[k].Status = StatusMatched
          /\ Outcomes[k].VarianceAmount = 0
          /\ SettledLate(Outcomes[k])
          /\ \E h \in DOMAIN HighPriority : HighPriority[h] = Outcomes[k]
    /\ \E k \in DOMAIN Outcomes :
          ~OverThreshold(Outcomes[k]) /\ ~SettledLate(Outcomes[k])

-----------------------------------------------------------------------------
(* C14 *)

\* C14: consecutive elements of the high-priority list have non-increasing
\* absolute variance.
C14_HighPriorityOrdering ==
    Done =>
        \A h \in 1..(Len(HighPriority) - 1) :
            Abs(HighPriority[h].VarianceAmount) >= Abs(HighPriority[h + 1].VarianceAmount)

\* A finished run in which a high-priority outcome of smaller absolute variance
\* precedes, in the outcome list, one of larger absolute variance: the sort had
\* to exchange them.
C14_Witness ==
    /\ Done
    /\ \E k1, k2 \in DOMAIN Outcomes :
          /\ k1 < k2
          /\ Abs(Outcomes[k1].VarianceAmount) < Abs(Outcomes[k2].VarianceAmount)
          /\ \E h1, h2 \in DOMAIN HighPriority :
                /\ HighPriority[h1] = Outcomes[k1]
                /\ HighPriority[h2] = Outcomes[k2]
                /\ h2 < h1

-----------------------------------------------------------------------------
(* C15 *)

\* The position in the outcome list of an element of the high-priority list
\* (the aggregation loop appends in that order).
ArrivalOf(h) == CHOOSE k \in DOMAIN Outcomes : Outcomes[k].ID = HighPriority[h].ID

\* C15: two high-priority outcomes of equal absolute variance are listed in
\* the order in which they were appended.
C15_TieStability ==
    Done =>
        \A h1, h2 \in DOMAIN HighPriority :
            (/\ h1 < h2
             /\ Abs(HighPriority[h1].VarianceAmount) = Abs(HighPriority[h2].VarianceAmount))
            => ArrivalOf(h1) < ArrivalOf(h2)

-----------------------------------------------------------------------------
(* C16 *)

\* Settlement hours a paired settlement could have had instead.
OtherHours == {-25, 0, 47, 48, 71, 72, 500}

HasLateNote(res) == \E n \in DOMAIN res.Notes : res.Notes[n] = "late"

\* C16: for every outcome pairing a settlement with a transaction in phase 2,
\* days_to_settle is the elapsed time in whole 24-hour days truncated toward
\* zero; the late note is present exactly when days_to_settle exceeds
\* late_settlement_days; and the status is what it would be with any other
\* settlement time.
C16_LateSettlement ==
    Done =>
        \A k \in Paired :
            LET t == TxnOf(k)
                s == SettOf(k)
                hours == s.SettledAt - t.AuthorizedAt
                days == Outcomes[k].DaysToSettle[1]
            IN  /\ Outcomes[k].DaysToSettle # <<>>
                /\ Abs(days) * 24 <= Abs(hours)
                /\ Abs(hours) < (Abs(days) + 1) * 24
                /\ days * hours >= 0
                /\ HasLateNote(Outcomes[k]) <=> days > config.LateSettlementDays
                /\ \A at \in OtherHours :
                      matchResult(config, Outcomes[k].ID, t, [s EXCEPT !.SettledAt = at]).Status
                        = Outcomes[k].Status

\* A finished run with a paired outcome 71 hours after authorization, counted
\* as 2 days and, 2 being the threshold, not late; and a paired outcome that
\* is late.
C16_Witness ==
    /\ Done
    /\ \E k \in Paired :
          /\ SettOf(k).SettledAt - TxnOf(k).AuthorizedAt = 71
          /\ Outcomes[k].DaysToSettle = <<2>>
          /\ config.LateSettlementDays = 2
          /\ ~HasLateNote(Outcomes[k])
    /\ \E k \in Paired :
          /\ Outcomes[k].DaysToSettle[1] > config.LateSettlementDays
          /\ HasLateNote(Outcomes[k])

-----------------------------------------------------------------------------
(* C17 *)

HasRate(table, from, to) == from \in DOMAIN table /\ to \in DOMAIN table[from]

\* converted is amount in currency from expressed in currency to, by the
\* reference function: unchanged for equal currencies, else by the direct rate,
\* else by the two USD rates, else unchanged.
IsReferenceConversion(table, amount, from, to, converted) ==
    IF from = to THEN converted = amount
    ELSE IF HasRate(table, from, to)
      THEN converted * table[from][to].d = amount * table[from][to].n
    ELSE IF to \in DOMAIN table /\ HasRate(table, from, "USD") /\ HasRate(table, to, "USD")
      THEN converted * table[from]["USD"].d * table[to]["USD"].n
             = amount * table[from]["USD"].n * table[to]["USD"].d
    ELSE converted = amount

\* C17: the expected amount of every outcome pairing a settlement with a
\* transaction in phase 2 is the transaction amount converted from the
\* transaction's currency to the settlement's by the reference function.
C17_ConversionIsReference ==
    Done =>
        \A k \in Paired :
            IsReferenceConversion(config.FXRates, TxnOf(k).Amount, TxnOf(k).Currency,
                                  SettOf(k).Currency, Outcomes[k].ExpectedAmount)

\* A finished run that converted by a direct rate although the two USD rates
\* exist and give another amount.
C17_Witness ==
    /\ Done
    /\ \E k \in Paired :
          LET from == TxnOf(k).Currency
              to == SettOf(k).Currency
              table == config.FXRates
          IN  /\ from # to
              /\ HasRate(table, from, to)
              /\ HasRate(table, from, "USD") /\ HasRate(table, to, "USD")
              /\ table[from][to].n * table[from]["USD"].d * table[to]["USD"].n
                   # table[from]["USD"].n * table[to]["USD"].d * table[from][to].d
              /\ Outcomes[k].ExpectedAmount * table[from][to].d
                   = TxnOf(k).Amount * table[from][to].n

-----------------------------------------------------------------------------
(* C18 *)

RecordsOf(store) == {store[id] : id \in DOMAIN store}
ElementsOf(list) == {list[k] : k \in DOMAIN list}

\* The snapshot of the run pairs a transaction set and a settlement set that
\* the store held together at some instant.
SnapshotWasHeld ==
    \E h \in held : /\ RecordsOf(h.transactions) = ElementsOf(transactions)
                    /\ RecordsOf(h.settlements) = ElementsOf(settlements)

\* C18: each of the two reads of Run returns what the store held at one
\* instant: the transaction list is the transactions the store held at some
\* instant, and so is the settlement list (the pair need not be: C18_Witness).
C18_EachReadIsAtomic ==
    /\ pc # "start" =>
          \E h \in held : RecordsOf(h.transactions) = ElementsOf(transactions)
    /\ pc \notin {"start", "snapshot"} =>
          \E h \in held : RecordsOf(h.settlements) = ElementsOf(settlements)

\* A finished run whose snapshot the store never held: a settlement is
\* reported unexpected_settlement although a transaction with its processor
\* key is in the store and was there at an instant when the settlement was not.
C18_Witness ==
    /\ Done
    /\ ~SnapshotWasHeld
    /\ \E k \in DOMAIN Outcomes :
          /\ Outcomes[k].Status = StatusUnexpectedSettlement
          /\ \E tid \in DOMAIN storeTransactions, s \in SnapshotSetts :
                /\ s.ID = Outcomes[k].SettlementID
                /\ keyOfRecord(storeTransactions[tid]) = keyOfRecord(s)
                /\ \E h \in held : /\ tid \in DOMAIN h.transactions
                                   /\ s.ID \notin DOMAIN h.settlements

-----------------------------------------------------------------------------
(* C19 *)

\* The value a run is to use for a numeric option: the trigger's if supplied
\* and nonzero, else the configured one if nonzero, else the default.
EffectiveOption(body, configured, option) ==
    IF body # <<>> /\ body[1][option] > 0 THEN body[1][option]
    ELSE IF configured[option] > 0 THEN configured[option]
    ELSE DefaultConfig[option]

EffectiveFXRates(body, configured) ==
    IF body # <<>> /\ body[1].FXRates # <<>> THEN body[1].FXRates
    ELSE IF configured.FXRates # <<>> THEN configured.FXRates
    ELSE DefaultConfig.FXRates

\* C19: every run triggered through the handler uses, for each option, the
\* supplied value when one is supplied (fx_rates included) and the documented
\* default when the option is absent or zero.
C19_ConfigDefaults ==
    [][runSeq' # runSeq =>
          /\ \A option \in {"VarianceTolerancePct", "LateSettlementDays",
                            "HighPriorityThreshold"} :
                config'[option] = EffectiveOption(request', handlerConfig, option)
          /\ config'.FXRates = EffectiveFXRates(request', handlerConfig)]_vars

-----------------------------------------------------------------------------
(* C20 *)

\* C20: in every outcome that references both a settlement and a transaction,
\* duplicate outcomes included, the expected amount is the transaction amount
\* converted into the settlement's currency and the variance is the gross
\* amount minus the expected amount.
C20_FXAdjustedVariance ==
    Done =>
        \A k \in DOMAIN Outcomes :
            (Outcomes[k].TransactionID # "" /\ Outcomes[k].SettlementID # "") =>
                /\ IsReferenceConversion(config.FXRates, TxnOf(k).Amount, TxnOf(k).Currency,
                                         SettOf(k).Currency, Outcomes[k].ExpectedAmount)
                /\ Outcomes[k].VarianceAmount
                     = SettOf(k).GrossAmount - Outcomes[k].ExpectedAmount

-----------------------------------------------------------------------------
(* C21 *)

\* C21: a list call never overlaps a write (no AddTransactions,
\* AddSettlements or Clear is in progress while a reader holds the mutex),
\* and the list it returns is the content its collection had at an instant
\* between two writes (held: the contents the store has had with no write in
\* progress): all or none of the records of a batch, never part of a batch
\* and never a partly cleared collection.
C21_ListIsAtomic ==
    readOp # <<>> =>
        /\ readOp[1].state = "locked" => writeOp = <<>>
        /\ readOp[1].state = "returned" =>
              \E h \in held :
                  ElementsOf(readOp[1].list) =
                      RecordsOf(IF readOp[1].call = "ListTransactions"
                                THEN h.transactions ELSE h.settlements)

\* A list call returned both transactions of a batch, whole, and the Clear in
\* progress has emptied the transactions and not yet the settlements.
C21_Witness ==
    /\ readOp # <<>>
    /\ readOp[1].state = "returned"
    /\ readOp[1].call = "ListTransactions"
    /\ Len(readOp[1].list) = 2
    /\ writeOp # <<>>
    /\ writeOp[1].op = "Clear"
    /\ storeTransactions = <<>>
    /\ storeSettlements # <<>>

-----------------------------------------------------------------------------
(* C22 *)

\* The summaries of the report: the overall one and every bucket of the three
\* breakdowns.
Summaries ==
    {report.Summary}
      \cup {report.ByCurrency[v] : v \in DOMAIN report.ByCurrency}
      \cup {report.ByCountry[v] : v \in DOMAIN report.ByCountry}
      \cup {report.ByProcessor[v] : v \in DOMAIN report.ByProcessor}

\* The sum of the five status counts of a summary.
StatusTotal(s) ==
    s.Matched + s.MatchedWithVariance + s.Unsettled + s.UnexpectedSettlements + s.Duplicates

\* The rate of the summary is the one of its own counts.
HasOwnRate(s) ==
    /\ s.ReconciliationRate.d > 0
    /\ IF StatusTotal(s) > 0
       THEN s.ReconciliationRate.n * StatusTotal(s)
              = (s.Matched + s.MatchedWithVariance) * 100 * s.ReconciliationRate.d
       ELSE s.ReconciliationRate.n = 0

\* C22: every summary of a report, the overall one and each by-currency,
\* by-country and by-processor bucket, has as reconciliation rate
\* (matched + matched_with_variance) * 100 over the sum of its own five status
\* counts, or 0 when that sum is 0.
C22_EverySummaryHasRate ==
    Done => \A s \in Summaries : HasOwnRate(s)

-----------------------------------------------------------------------------
(* C23 *)

\* The count a summary keeps for a status.
StatusCount(s, status) ==
    CASE status = StatusMatched -> s.Matched
      [] status = StatusMatchedWithVariance -> s.MatchedWithVariance
      [] status = StatusUnsettled -> s.Unsettled
      [] status = StatusUnexpectedSettlement -> s.UnexpectedSettlements
      [] status = StatusDuplicate -> s.Duplicates

\* The breakdown of the report for a field of the outcomes.
BreakdownOf(field) ==
    CASE field = "Currency" -> report.ByCurrency
      [] field = "Country" -> report.ByCountry
      [] field = "ProcessorName" -> report.ByProcessor

\* The outcomes with the given status and the given value of the field.
OutcomesWith(status, field, v) ==
    {k \in DOMAIN Outcomes : Outcomes[k].Status = status /\ Outcomes[k][field] = v}

\* C23: in every report the five status counts of the overall summary are the
\* numbers of outcomes of each status and sum to the number of outcomes; each
\* breakdown has one bucket per non-empty value of its field, whose status
\* counts are the numbers of outcomes of that status with that value; an
\* outcome with an empty country is in no country bucket and is counted in
\* the buckets of its currency and of its processor.
C23_EachOutcomeCountedOnce ==
    Done =>
        /\ \A status \in Phase2Statuses \cup {StatusUnsettled, StatusDuplicate} : StatusCount(report.Summary, status) = CountOf(status)
        /\ StatusTotal(report.Summary) = Len(Outcomes)
        /\ \A field \in {"Currency", "Country", "ProcessorName"} :
              /\ DOMAIN BreakdownOf(field)
                   = {Outcomes[k][field] : k \in DOMAIN Outcomes} \ {""}
              /\ \A v \in DOMAIN BreakdownOf(field), status \in Phase2Statuses \cup {StatusUnsettled, StatusDuplicate} :
                    StatusCount(BreakdownOf(field)[v], status)
                      = Cardinality(OutcomesWith(status, field, v))
        /\ \A k \in DOMAIN Outcomes :
              Outcomes[k].Country = "" =>
                 /\ "" \notin DOMAIN report.ByCountry
                 /\ \A field \in {"Currency", "ProcessorName"} :
                       Outcomes[k][field] # "" =>
                          /\ Outcomes[k][field] \in DOMAIN BreakdownOf(field)
                          /\ StatusCount(BreakdownOf(field)[Outcomes[k][field]],
                                         Outcomes[k].Status) >= 1

\* A finished run with an unexpected settlement, which has no country, beside
\* an outcome that has one: the country buckets count fewer outcomes than the
\* currency buckets.
C23_Witness ==
    /\ Done
    /\ \E k, j \in DOMAIN Outcomes :
          /\ Outcomes[k].Status = StatusUnexpectedSettlement
          /\ Outcomes[k].Country = ""
          /\ Outcomes[k].Currency \in DOMAIN report.ByCurrency
          /\ Outcomes[j].Country \in DOMAIN report.ByCountry
          /\ Outcomes[j].Currency = Outcomes[k].Currency
          /\ StatusTotal(report.ByCurrency[Outcomes[k].Currency])
               > StatusTotal(report.ByCountry[Outcomes[j].Country])

-----------------------------------------------------------------------------
(* C24 *)

\* C24: every trigger request, concurrent ones included, obtains a run id
\* different from every other request's, and the run a request has saved is
\* still the one stored under its id (no other run has overwritten it).
C24_UniqueRunIDs ==
    LET withRunID == {p \in DOMAIN serving : serving[p].pc \notin {"store", "format"}}
        withSavedRun == {p \in withRunID : serving[p].pc # "save"}
    IN  /\ \A p, q \in withRunID : p # q => serving[p].runID # serving[q].runID
        /\ \A p \in withSavedRun : runs[serving[p].runID] = serving[p].run

-----------------------------------------------------------------------------
(* C25 *)

\* In this step no stored run, as a reader finds it under its id, goes from
\* completed to another status.
CompletedStays ==
    \A id \in DOMAIN runs :
        runObjects[runs[id]].Status = "completed"
           => runObjects'[runs'[id]].Status = "completed"

\* The response of get-run does not show a completed run without its report.
CompletedHasReport ==
    IF response # <<>>
    THEN IF response[1].handler = "getRun"
         THEN response[1].run.Status = "completed" => response[1].run.Report # <<>>
         ELSE TRUE
    ELSE TRUE

\* C25: a stored run goes from running to completed and never back, and a
\* reader that observes the run completed observes its report attached, even
\* when it reads while the run is finishing.
C25_RunLifecycle == [][CompletedStays]_vars /\ []CompletedHasReport

-----------------------------------------------------------------------------
(* C26 *)

\* The sum of a field over the settlements of the snapshot, each counted once.
RECURSIVE SettlementTotal(_, _)
SettlementTotal(setts, field) ==
    IF setts = <<>> THEN 0
    ELSE Head(setts)[field] + SettlementTotal(Tail(setts), field)

\* C26: in every report the overall summary's total settled gross, total
\* settled net and total fees are the sums of the gross, net and fee amounts
\* over the settlements of the snapshot, each settlement counted once
\* (duplicates and unexpected settlements included); an unsettled outcome
\* contributes 0 to each.
C26_SettledAmountsConserved ==
    Done =>
        /\ report.Summary.TotalSettledGross = SettlementTotal(settlements, "GrossAmount")
        /\ report.Summary.TotalSettledNet = SettlementTotal(settlements, "NetAmount")
        /\ report.Summary.TotalFees = SettlementTotal(settlements, "FeeAmount")
        /\ \A k \in DOMAIN Outcomes :
              Outcomes[k].Status = StatusUnsettled =>
                 /\ Outcomes[k].SettledGrossAmount = 0
                 /\ Outcomes[k].SettledNetAmount = 0
                 /\ Outcomes[k].FeeAmount = 0

\* A finished run with a duplicate group, an unexpected settlement and an
\* unsettled transaction, whose settlements carry fees.
C26_Witness ==
    /\ Done
    /\ CountOf(StatusDuplicate) > 0
    /\ CountOf(StatusUnexpectedSettlement) > 0
    /\ CountOf(StatusUnsettled) > 0
    /\ report.Summary.TotalFees > 0
    /\ report.Summary.TotalSettledNet < report.Summary.TotalSettledGross

-----------------------------------------------------------------------------
(* C27 *)

\* C27: two records of a snapshot, settlements or transactions, have the same
\* processor key only if they have the same processor name and the same
\* processor transaction id; so two settlements are in one duplicate group,
\* and a settlement is paired with the transaction indexed under its key,
\* only in that case.
C27_KeyInjective ==
    /\ LET namesAndIDs ==
              {<<r.ProcessorName, r.ProcessorTxnID>> : r \in SnapshotSetts}
                \cup {<<t.ProcessorName, t.ProcessorTxnID>> : t \in SnapshotTxns}
       IN  \A x, y \in namesAndIDs :
              processorKey(x[1], x[2]) = processorKey(y[1], y[2]) => x = y
    /\ Done =>
          /\ \A s \in SnapshotSetts :
                (\E k \in OutcomesOfSettlement(s.ID) : Outcomes[k].Status = StatusDuplicate)
                   => Cardinality(SameNameAndID(s)) > 1
          /\ \A k \in Paired :
                keyOfRecord(TxnOf(k)) = keyOfRecord(SettOf(k)) =>
                   /\ TxnOf(k).ProcessorName = SettOf(k).ProcessorName
                   /\ TxnOf(k).ProcessorTxnID = SettOf(k).ProcessorTxnID

-----------------------------------------------------------------------------
(* C28 *)

\* C28: a trigger request, with or without overrides, leaves the handler's
\* config (what get-config returns) and its reconciler as they were, and a
\* run without overrides uses the config of that reconciler: the one in use
\* before any overriding run.
C28_OverrideIsLocal ==
    [][runSeq' # runSeq =>
          /\ handlerConfig' = handlerConfig
          /\ reconcilerConfig' = reconcilerConfig
          /\ request' = <<>> => config' = reconcilerConfig]_vars

\* The second run, without overrides, has used the handler's config again,
\* after a first run whose report differs from its own: on the same store,
\* the first run was one with overrides.
C28_Witness ==
    /\ runSeq = 2
    /\ request = <<>>
    /\ config = reconcilerConfig
    /\ handlerConfig = DefaultConfig
    /\ reconcilerConfig = DefaultConfig
    /\ runObjects[runs[1]].Report # runObjects[runs[2]].Report

-----------------------------------------------------------------------------
(* C29 *)

\* C29: in a run whose high-priority threshold is positive, an unsettled
\* outcome has variance 0 and no days-to-settle value, and none is in the
\* high-priority list, whatever the amount of its transaction.
C29_UnsettledNeverHighPriority ==
    (Done /\ config.HighPriorityThreshold > 0) =>
        /\ \A k \in DOMAIN Outcomes :
              Outcomes[k].Status = StatusUnsettled =>
                 /\ Outcomes[k].VarianceAmount = 0
                 /\ Outcomes[k].DaysToSettle = <<>>
        /\ \A h \in DOMAIN HighPriority : HighPriority[h].Status # StatusUnsettled

\* A finished run with a positive threshold, an unsettled transaction whose
\* amount is over the threshold, and a high-priority list that is not empty.
C29_Witness ==
    /\ Done
    /\ config.HighPriorityThreshold > 0
    /\ HighPriority # <<>>
    /\ \E k \in DOMAIN Outcomes :
          /\ Outcomes[k].Status = StatusUnsettled
          /\ Outcomes[k].ExpectedAmount >= config.HighPriorityThreshold
          /\ \A h \in DOMAIN HighPriority : HighPriority[h].ID # Outcomes[k].ID

-----------------------------------------------------------------------------
(* C30 *)

\* The phase of Run that appends outcomes of a status.
PhaseOf(status) ==
    CASE status = StatusDuplicate -> 1
      [] status \in Phase2Statuses -> 2
      [] status = StatusUnsettled -> 3

\* C30: in the outcome list, while Run builds it and when it is returned, the
\* duplicate outcomes precede the matched, matched_with_variance and
\* unexpected_settlement outcomes, which precede the unsettled ones; phase 3
\* starts from the consumed transactions that the outcomes of phases 1 and 2
\* reference, leaves that set as it is, and appends an unsettled outcome for
\* exactly the other transactions of the snapshot.
C30_PhaseOrder ==
    /\ \A i, j \in DOMAIN results :
          i < j => PhaseOf(results[i].Status) <= PhaseOf(results[j].Status)
    /\ pc = "phase2" => \A k \in DOMAIN results : PhaseOf(results[k].Status) = 1
    /\ pc = "phase3" => \A k \in DOMAIN results : PhaseOf(results[k].Status) < 3
    /\ pc \in {"phase3", "report", "done"} =>
          matchedTxnIDs =
             {results[k].TransactionID :
                 k \in {i \in DOMAIN results : PhaseOf(results[i].Status) < 3}} \ {""}
    /\ pc \in {"report", "done"} =>
          {results[k].TransactionID :
              k \in {i \in DOMAIN results : PhaseOf(results[i].Status) = 3}}
            = {t.ID : t \in SnapshotTxns} \ matchedTxnIDs
    /\ Done => Outcomes = results

\* A returned list with a duplicate outcome, then a phase 2 outcome, then an
\* unsettled one.
C30_Witness ==
    /\ Done
    /\ \E i, j, k \in DOMAIN Outcomes :
          /\ i < j /\ j < k
          /\ Outcomes[i].Status = StatusDuplicate
          /\ Outcomes[j].Status \in Phase2Statuses
          /\ Outcomes[k].Status = StatusUnsettled

====
